---- MODULE Spec2Model ----
(***************************************************************************)
(* AgentWeb: the SQLite-backed PageCache (cache.js) and the smart-render   *)
(* orchestrator (smart-renderer.js).                                       *)
(*                                                                         *)
(* The page_cache table is a set of rows; the rowid is the row itself.     *)
(* Date.now() is the variable clock, advanced by Tick between operations.  *)
(***************************************************************************)
EXTENDS Integers, Sequences, FiniteSets, TLC

\* ------------------------------------------------------------------ bounds
MaxTime == 2          \* the clock runs over 0..MaxTime
MaxHits == 1          \* hit_count is followed up to this value
SmallMax == 1         \* maxEntries of the second PageCache object (test: 5)
BigMax == 2           \* maxEntries of the first PageCache object (test: 10)
SharedMax == 1        \* maxEntries of the module-level cache (source: 200)

\* ----------------------------------------------------------------- domains
URLs == {"u1", "u2"}
Queries == {"", "q1"}
\* the (url, query) pairs the operations are called with
Keys == {<<"u1", "">>, <<"u1", "q1">>, <<"u2", "">>}
Undefined == -1                       \* an omitted ttlMs / cacheTtlMs argument
TTLs == {Undefined, 1}
FnTtl == 2                            \* ttlMs of the PageCache objects of the unit test (test: 5000)

\* ------------------------------------------------------- JavaScript values
\* Every value is a record with a type tag t.  An object carries the name
\* of its constructor and its own enumerable properties.
NullV == [t |-> "null"]
Str(s) == [t |-> "string", v |-> s]
Num(n) == [t |-> "number", n |-> n]
Bool(b) == [t |-> "boolean", b |-> b]
Fn == [t |-> "function"]
Obj(c, p) == [t |-> "object", ctor |-> c, props |-> p]
PageObj == Obj("Page", <<>>)

IsCallable(v) == v.t = "function"
IsPage(v) == v.t = "object" /\ v.ctor = "Page"

\* cache.js stripUnserializable: own properties that are callables or whose
\* constructor is named Page are dropped; the rest is walked recursively.
StripDepthCap == 10
RECURSIVE stripUnserializable(_, _)
stripUnserializable(obj, depth) ==
    IF depth > StripDepthCap THEN Str("[too deep]")
    ELSE IF obj.t = "null" THEN obj
    ELSE IF obj.t = "function" THEN NullV
    ELSE IF obj.t # "object" THEN obj
    ELSE LET keep == {k \in DOMAIN obj.props :
                         ~IsCallable(obj.props[k]) /\ ~IsPage(obj.props[k])}
         IN  [obj EXCEPT !.props =
                 [k \in keep |-> stripUnserializable(obj.props[k], depth + 1)]]

\* JSON.stringify: the text carries the properties and not the constructor.
RECURSIVE Plain(_)
Plain(v) ==
    IF v.t = "object"
    THEN Obj("Object", [k \in DOMAIN v.props |-> Plain(v.props[k])])
    ELSE v
JSONstringify(v) == [json |-> Plain(v)]
\* JSON.parse of a text written by JSON.stringify
JSONparse(text) == text.json

\* result?.backend ?? 'unknown'
BackendOf(result) ==
    IF result.t = "object" /\ "backend" \in DOMAIN result.props
    THEN result.props["backend"].v
    ELSE "unknown"

\* the results the unit operations store
UnitResult(b, extra) ==
    Obj("Object",
        IF extra = "page"
        THEN [k \in {"backend", "page", "onDone"} |->
                 IF k = "backend" THEN Str(b) ELSE IF k = "page" THEN PageObj ELSE Fn]
        ELSE [k \in {"backend"} |-> Str(b)])
UnitResults == {UnitResult("lite", "page"), UnitResult("playwright", "plain")}

\* --------------------------------------------------------------- the state
VARIABLES
    db,        \* the rows of table page_cache
    clock,     \* Date.now()
    lastOp,    \* the operation performed by the last step, with its return value
    cacheOpen, \* smart-renderer's module-level _cache is not null
    calls,     \* the render() calls: position, arguments, locals, returned value
    pw,        \* the renderWithPlaywright() calls: position, options, the browser
    htmlArg,   \* the HTML string given to detectSPA
    report,    \* the report detectSPA returned for htmlArg
    doc,       \* the document given to parseHTML or loaded in the browser page
    record,    \* the PageRecord made from doc
    chunkList, \* the chunk list chunkPage returned, given to findRelevant
    queryArg,  \* the query and the limit given to findRelevant
    ranked     \* what findRelevant returned

cacheVars == <<db, clock, lastOp>>
renderVars == <<cacheOpen, calls>>
browserVars == <<pw>>
detectVars == <<htmlArg, report>>
pageVars == <<doc, record, chunkList, queryArg, ranked>>
\* the state of the functions that are followed on their own
libVars == <<browserVars, detectVars, pageVars>>
vars == <<db, clock, lastOp, cacheOpen, calls, pw, htmlArg, report,
          doc, record, chunkList, queryArg, ranked>>

\* the PageCache objects of the unit test, all on one dbPath
Caches == {"cache", "lruCache"}
maxEntries(c) == IF c = "cache" THEN BigMax ELSE SmallMax
ttlMs(c) == FnTtl

Row(u, q, b, j, c, e, h, l) ==
    [url |-> u, query |-> q, backend |-> b, result_json |-> j,
     created_at |-> c, expires_at |-> e, hit_count |-> h, last_hit |-> l]

Matching(rows, u, q) == {r \in rows : r.url = u /\ r.query = q}

\* ------------------------------------------------------------ PageCache.get
\* Returns the new rows, the returned value and the line _verbose logs.
GetMiss(rows) == [rows |-> rows, ret |-> NullV, log |-> "MISS"]
\* faulty variant: the expired row is reported but not deleted
GetExpired_keepsRow(rows, row) == [rows |-> rows, ret |-> NullV, log |-> "EXPIRED"]
GetExpired(rows, row) == [rows |-> rows \ {row}, ret |-> NullV, log |-> "EXPIRED"]
GetHit(rows, row, now) ==
    [rows |-> (rows \ {row}) \cup
              {[row EXCEPT !.hit_count = row.hit_count + 1, !.last_hit = now]},
     ret |-> JSONparse(row.result_json), log |-> "HIT"]

\* SELECT ... WHERE url = ? AND query = ? LIMIT 1 picks one matching row
GetOutcomes(rows, u, q, now) ==
    IF Matching(rows, u, q) = {} THEN {GetMiss(rows)}
    ELSE {IF row.expires_at < now THEN GetExpired(rows, row) ELSE GetHit(rows, row, now)
            : row \in Matching(rows, u, q)}

\* ------------------------------------------------- PageCache._evictIfNeeded
ExpiryClass(r, now) == IF r.expires_at < now THEN 0 ELSE 1
\* faulty variant: ORDER BY last_hit ASC only
SortsBefore_lastHitOnly(a, b, now) == a.last_hit < b.last_hit

\* a sorts strictly before b in ORDER BY (expired first), last_hit ASC
SortsBefore(a, b, now) ==
    \/ ExpiryClass(a, now) < ExpiryClass(b, now)
    \/ ExpiryClass(a, now) = ExpiryClass(b, now) /\ a.last_hit < b.last_hit

\* faulty variant: one row too few is removed
EvictOutcomes_oneTooFew(rows, max, now) ==
    IF Cardinality(rows) <= max + 1 THEN {rows}
    ELSE LET toRemove == Cardinality(rows) - max - 1
         IN  {rows \ D : D \in {D \in SUBSET rows :
                 /\ Cardinality(D) = toRemove
                 /\ \A d \in D, k \in rows \ D : ~SortsBefore(k, d, now)}}

\* The row sets that can remain: the first toRemove rows of the ordering are
\* deleted; the order of rows that compare equal is not determined by SQL.
EvictOutcomes(rows, max, now) ==
    IF Cardinality(rows) <= max THEN {rows}
    ELSE LET toRemove == Cardinality(rows) - max
         IN  {rows \ D : D \in {D \in SUBSET rows :
                 /\ Cardinality(D) = toRemove
                 /\ \A d \in D, k \in rows \ D : ~SortsBefore(k, d, now)}}

\* -------------------------------------------------------- PageCache.set
\* faulty variant: a plain INSERT, no conflict clause
Upsert_plainInsert(rows, u, q, result, ttl, now) ==
    rows \cup
        {Row(u, q, BackendOf(result),
             JSONstringify(stripUnserializable(result, 0)),
             now, now + ttl, 0, now)}

\* INSERT ... ON CONFLICT (url, query) DO UPDATE
Upsert(rows, u, q, result, ttl, now) ==
    (rows \ Matching(rows, u, q)) \cup
        {Row(u, q, BackendOf(result),
             JSONstringify(stripUnserializable(result, 0)),
             now, now + ttl, 0, now)}

\* faulty variant: INSERT OR IGNORE, the first row of a key stays
SetOutcomes_firstWriterWins(rows, max, u, q, result, ttl, now) ==
    IF Matching(rows, u, q) # {} THEN {rows}
    ELSE EvictOutcomes(Upsert(rows, u, q, result, ttl, now), max, now)

SetOutcomes(rows, max, u, q, result, ttl, now) ==
    EvictOutcomes(Upsert(rows, u, q, result, ttl, now), max, now)

\* -------------------------------------------- invalidate and purgeExpired
\* faulty variant: only the row of the default query is deleted
InvalidateRows_defaultQueryOnly(rows, u) == {r \in rows : ~(r.url = u /\ r.query = "")}
InvalidateRows(rows, u) == {r \in rows : r.url # u}
PurgeRows(rows, now) == {r \in rows : ~(r.expires_at < now)}

\* ------------------------------------------------------- the operation log
NoOp == [op |-> "init", cache |-> "", url |-> "", query |-> "", result |-> NullV,
         ttl |-> 0, now |-> 0, ret |-> NullV, changes |-> 0, log |-> "",
         evicted |-> 0, had |-> FALSE, gone |-> {}]

\* ------------------------------------------------------------ unit actions
Tick ==
    /\ clock < MaxTime
    /\ clock' = clock + 1
    /\ lastOp' = [NoOp EXCEPT !.op = "tick", !.now = clock + 1]
    /\ UNCHANGED <<db, renderVars, libVars>>

Get(u, q) ==
    /\ \E o \in GetOutcomes(db, u, q, clock) :
        /\ \A r \in o.rows : r.hit_count <= MaxHits
        /\ db' = o.rows
        /\ lastOp' = [NoOp EXCEPT !.op = "get", !.url = u, !.query = q,
                                  !.now = clock, !.ret = o.ret, !.log = o.log,
                                  !.had = Matching(db, u, q) # {}]
    /\ UNCHANGED <<clock, renderVars, libVars>>

\* set is synchronous: its two reads of Date.now() give the same millisecond
Set(c, u, q, result, ttlArg) ==
      LET ttl == IF ttlArg = Undefined THEN ttlMs(c) ELSE ttlArg
          upserted == Upsert(db, u, q, result, ttl, clock)
      IN  \E rows \in SetOutcomes(db, maxEntries(c), u, q, result, ttl, clock) :
            /\ db' = rows
            /\ UNCHANGED <<clock, renderVars, libVars>>
            /\ lastOp' = [NoOp EXCEPT !.op = "set", !.cache = c, !.url = u, !.query = q,
                              !.result = result, !.ttl = ttl, !.now = clock,
                              !.log = "SET", !.had = Matching(db, u, q) # {},
                              !.evicted = Cardinality(upserted) - Cardinality(rows),
                              !.gone = {[class |-> ExpiryClass(d, clock),
                                         last_hit |-> d.last_hit] : d \in upserted \ rows}]

Invalidate(u) ==
    /\ db' = InvalidateRows(db, u)
    /\ lastOp' = [NoOp EXCEPT !.op = "invalidate", !.url = u, !.now = clock,
                              !.changes = Cardinality(db) - Cardinality(InvalidateRows(db, u))]
    /\ UNCHANGED <<clock, renderVars, libVars>>

PurgeExpired ==
    /\ db' = PurgeRows(db, clock)
    /\ lastOp' = [NoOp EXCEPT !.op = "purgeExpired", !.now = clock,
                              !.changes = Cardinality(db) - Cardinality(PurgeRows(db, clock))]
    /\ UNCHANGED <<clock, renderVars, libVars>>

\* stats().entries and stats().expired
StatsEntries(rows) == Cardinality(rows)
StatsExpired(rows, now) == Cardinality({r \in rows : r.expires_at < now})


\* ================================================ smart-renderer: detectSPA
\* An HTML string is a sequence of fragments.  A fragment stands for a literal
\* piece of HTML, given in the comment of its definition; its record carries
\* what the regular expressions of detectSPA find in it:
\*   kind      "markup" (begins and ends with a tag), "text" (one word, no
\*             tag, no white space) or "script" (a <script>...</script> block)
\*   len       its length in characters
\*   text      the characters of it that are left in textContent
\*   signals   the indices of the spaSignals patterns that match in it
\*   skeleton  the indices of the skeletonPatterns that match in it
\*   headings, paragraphs   the matches of the two matchAll patterns in it
\*   meta, ldjson           the meta generator / ld+json pattern matches in it
Frag(kind, len, text) ==
    [kind |-> kind, len |-> len, text |-> text, signals |-> {}, skeleton |-> {},
     headings |-> 0, paragraphs |-> 0, meta |-> FALSE, ldjson |-> FALSE]

spaSignals ==
    << [reason |-> "React root div (empty)", weight |-> 4],
       [reason |-> "Vue/React app div (empty)", weight |-> 4],
       [reason |-> "Next.js root", weight |-> 3],
       [reason |-> "Angular app-root", weight |-> 4],
       [reason |-> "React data attribute", weight |-> 3],
       [reason |-> "Vue 3 attribute", weight |-> 4],
       [reason |-> "Angular version attribute", weight |-> 3],
       [reason |-> "Nuxt.js signal", weight |-> 2],
       [reason |-> "Next.js data hydration", weight |-> 3],
       [reason |-> "Redux initial state", weight |-> 2],
       [reason |-> "Svelte component", weight |-> 2],
       [reason |-> "Ember.js", weight |-> 3] >>

\* the shortest text each spaSignals pattern matches (a whole tag for the
\* patterns that begin with "<")
SignalText ==
    << [Frag("markup", 21, 0) EXCEPT !.signals = {1}],   \* <div id="root"></div>
       [Frag("markup", 20, 0) EXCEPT !.signals = {2}],   \* <div id="app"></div>
       [Frag("markup", 17, 0) EXCEPT !.signals = {3}],   \* <div id="__next">
       [Frag("markup", 10, 0) EXCEPT !.signals = {4}],   \* <app-root>
       [Frag("text", 14, 14) EXCEPT !.signals = {5}],    \* data-reactroot
       [Frag("text", 12, 12) EXCEPT !.signals = {6}],    \* data-vue-app
       [Frag("text", 11, 11) EXCEPT !.signals = {7}],    \* ng-version=
       [Frag("text", 6, 6) EXCEPT !.signals = {8}],      \* __nuxt
       [Frag("text", 20, 20) EXCEPT !.signals = {9}],    \* window.__NEXT_DATA__
       [Frag("text", 24, 24) EXCEPT !.signals = {10}],   \* window.__INITIAL_STATE__
       [Frag("text", 7, 7) EXCEPT !.signals = {11}],     \* svelte-
       [Frag("text", 17, 17) EXCEPT !.signals = {12}] >> \* ember-application

RootDiv == SignalText[1]
\* <script>window.__NEXT_DATA__ = {}</script>
NextDataScript == [Frag("script", 42, 0) EXCEPT !.signals = {9}]
\* <div class="aa...a">, n characters in all
Markup(n) == Frag("markup", n, 0)
\* n letters
Word(n) == Frag("text", n, n)
\* <script>xx...x</script> with n characters between the tags
Script(n) == Frag("script", n + 17, 0)
\* <h1>T</h1>
Heading == [Frag("markup", 10, 1) EXCEPT !.headings = 1]
\* <p>aa...a</p> with n letters: matched by <p[^>]*>[^<]{20,}<\/p> from 20 on
Paragraph(n) == [Frag("markup", n + 7, n) EXCEPT !.paragraphs = IF n >= 20 THEN 1 ELSE 0]
\* <script type="application/ld+json">{}</script>
LdJson == [Frag("script", 46, 0) EXCEPT !.ldjson = TRUE]
\* <meta name="generator" content="React">
MetaGenerator == [Frag("markup", 39, 0) EXCEPT !.meta = TRUE]
\* <div class="loading spinner">: skeletonPatterns 1 and 3
Skeleton == [Frag("markup", 29, 0) EXCEPT !.skeleton = {1, 3}]

Max(a, b) == IF a >= b THEN a ELSE b

RECURSIVE Sum(_, _)
\* the sum of the numbers ns[i], ns[i + 1], ...
Sum(ns, i) == IF i > Len(ns) THEN 0 ELSE ns[i] + Sum(ns, i + 1)

RECURSIVE TextLength(_, _, _, _)
\* html.replace(script blocks, '').replace(style blocks, '')
\*     .replace(/<[^>]+>/g, ' ').replace(/\s+/g, ' ').trim().length
\* from fragment i on; sep: a tag was passed since the last word; seen: a word
\* was passed
TextLength(html, i, sep, seen) ==
    IF i > Len(html) THEN 0
    ELSE LET f == html[i]
         IN  IF f.kind = "script" THEN TextLength(html, i + 1, sep, seen)
             ELSE IF f.text = 0 THEN TextLength(html, i + 1, TRUE, seen)
             ELSE f.text
                  + (IF (sep \/ f.kind = "markup") /\ seen THEN 1 ELSE 0)
                  + TextLength(html, i + 1, f.kind = "markup", TRUE)

\* pattern.test(html) for spaSignals[s]
Fires(html, s) == \E i \in 1..Len(html) : s \in html[i].signals

RECURSIVE SignalScan(_, _)
\* for (const { pattern, reason, weight } of spaSignals), from signal s on
SignalScan(html, s) ==
    IF s > Len(spaSignals) THEN [score |-> 0, reasons |-> <<>>]
    ELSE LET rest == SignalScan(html, s + 1)
         IN  IF Fires(html, s)
             THEN [score |-> spaSignals[s].weight + rest.score,
                   reasons |-> <<spaSignals[s].reason>> \o rest.reasons]
             ELSE rest

\* faulty variant: a page counts as SPA only above 4
Classify_above4(score, reasons) ==
    [isSPA |-> score > 4, score |-> score,
     confidence |-> IF score >= 8 THEN "high" ELSE IF score >= 4 THEN "medium" ELSE "low",
     reasons |-> reasons]

\* const isSPA = ...; const confidence = ...; return { ... }
Classify(score, reasons) ==
    [isSPA |-> score >= 4, score |-> score,
     confidence |-> IF score >= 8 THEN "high" ELSE IF score >= 4 THEN "medium" ELSE "low",
     reasons |-> reasons]

\* The ratios are compared as fractions of 100.
detectSPA(html) ==
    LET frameworks == SignalScan(html, 1)
        htmlSize == Sum([i \in 1..Len(html) |-> html[i].len], 1)
        scriptSize == Sum([i \in 1..Len(html) |->
                               IF html[i].kind = "script" THEN html[i].len ELSE 0], 1)
        textLen == TextLength(html, 1, FALSE, FALSE)
        size1 == Max(htmlSize, 1)
        veryLowText == 100 * textLen < 5 * size1 /\ htmlSize > 5000
        lowText == ~veryLowText /\ 100 * textLen < 10 * size1 /\ htmlSize > 10000
        scriptHeavy == 100 * scriptSize > 50 * size1
        skeletonHits == Cardinality(UNION {html[i].skeleton : i \in 1..Len(html)})
        headings == Sum([i \in 1..Len(html) |-> html[i].headings], 1)
        paragraphs == Sum([i \in 1..Len(html) |-> html[i].paragraphs], 1)
        noContent == headings = 0 /\ paragraphs < 3 /\ htmlSize > 20000
        generator == \E i \in 1..Len(html) : html[i].meta
        structured == (\E i \in 1..Len(html) : html[i].ldjson) /\ 100 * textLen > 15 * size1
        score == frameworks.score
                 + (IF veryLowText THEN 4 ELSE IF lowText THEN 2 ELSE 0)
                 + (IF scriptHeavy THEN 2 ELSE 0)
                 + (IF skeletonHits >= 2 THEN 2 ELSE 0)
                 + (IF noContent THEN 3 ELSE 0)
                 + (IF generator THEN 2 ELSE 0)
                 - (IF structured THEN 2 ELSE 0)
        reasons == frameworks.reasons
                 \o (IF veryLowText THEN <<"Very low text ratio">>
                     ELSE IF lowText THEN <<"Low text ratio">> ELSE <<>>)
                 \o (IF scriptHeavy THEN <<"Script-heavy">> ELSE <<>>)
                 \o (IF skeletonHits >= 2 THEN <<"Loading skeleton patterns detected">> ELSE <<>>)
                 \o (IF noContent THEN <<"Large HTML with almost no semantic content">> ELSE <<>>)
                 \o (IF generator THEN <<"Meta generator = React/Next.js">> ELSE <<>>)
    IN  Classify(score, reasons)

\* the documents of the render model as fragments: the empty body, a
\* server-rendered page (heading, three paragraphs), and the page with the
\* empty React root div of the detection tests
\* (<html><head></head><body>, the div, <script src="bundle.js"></script>,
\* </body></html>)
Body(html) ==
    IF html = "" THEN <<>>
    ELSE IF html = "static" THEN <<Heading, Paragraph(30), Paragraph(30), Paragraph(30)>>
    ELSE <<Markup(25), RootDiv, Script(16), Markup(14)>>


\* ================================================= smart-renderer: render()
Calls == {"c1"}
NoQuery == "<undefined>"              \* options.query omitted
NoForce == "<undefined>"              \* options.force omitted
QueryArgs == {NoQuery, ""}
RenderTtls == {Undefined}             \* options.cacheTtlMs
ForceArgs == {NoForce, "lite", "playwright"}
RenderURLs == {"u1"}
LiteTtl == 2                          \* 10 * 60 * 1000, in clock units
PlaywrightTtl == 1                    \* 5 * 60 * 1000, in clock units

\* the documents a server answers with: an empty body, the static blog page
\* and the page with an empty React root div of the detection tests
HTMLs == {"", "static", "spa"}
Responses == {[html |-> h, status |-> 200] : h \in HTMLs}
                 \cup {[html |-> "static", status |-> 404]}
ResponseOk(resp) == resp.status >= 200 /\ resp.status <= 299

\* renderLite with options._rawHtml set and truthy
renderLitePrefetched(url, rawHtml) ==
    Obj("Object", [url |-> Str(url), content |-> Str(rawHtml),
                   httpStatus |-> Num(200), contentType |-> Str("text/html"),
                   renderer |-> Str("lite")])
\* renderLite after its own fetch answered resp
renderLiteFetched(url, resp) ==
    Obj("Object", [url |-> Str(url), content |-> Str(resp.html),
                   httpStatus |-> Num(resp.status), contentType |-> Str("text/html"),
                   renderer |-> Str("lite")])
\* the record page.evaluate returns
PlaywrightData(url) ==
    Obj("Object", [url |-> Str(url), content |-> Str("dom")])

buildResult(url, backend, detection, data, query, t0, now) ==
    Obj("Object",
        [url |-> Str(url), backend |-> Str(backend),
         detection |-> Obj("Object", [isSPA |-> Bool(detection.isSPA),
                                      score |-> Num(detection.score),
                                      confidence |-> Str(detection.confidence)]),
         data |-> data, chunks |-> Str("chunks"), summary |-> Str("summary"),
         ms |-> Num(now - t0)])

ErrorResult(url, message, t0, now) ==
    Obj("Object", [url |-> Str(url), backend |-> Str("error"),
                   error |-> Str(message), ms |-> Num(now - t0)])

\* faulty variant: the stored ms is returned
HitResult_staleMs(cached, t0, now) ==
    Obj("Object",
        [k \in DOMAIN cached.props \cup {"cached"} |->
            IF k = "cached" THEN Bool(TRUE) ELSE cached.props[k]])

\* { ...cached, cached: true, ms: Date.now() - t0 }
HitResult(cached, t0, now) ==
    Obj("Object",
        [k \in DOMAIN cached.props \cup {"cached", "ms"} |->
            IF k = "cached" THEN Bool(TRUE)
            ELSE IF k = "ms" THEN Num(now - t0)
            ELSE cached.props[k]])

Truthy(v) == v.t # "null"

IdleCall ==
    [pc |-> "idle", url |-> "", query |-> NoQuery, force |-> NoForce, noCache |-> FALSE,
     cacheTtlMs |-> Undefined, t0 |-> 0, rawHtml |-> "", ret |-> NullV,
     effects |-> {}, touched |-> {}, opened |-> FALSE, live |-> {}]

CacheKey(query) == IF query = NoQuery THEN "" ELSE query

\* what a step did to the table, by key
KeysOf(rows) == {<<r.url, r.query>> : r \in rows}
Touched(before, after) ==
    (IF \E r \in after : <<r.url, r.query>> \notin KeysOf(before) THEN {"created"} ELSE {})
    \cup (IF \E r \in after : r \notin before /\ <<r.url, r.query>> \in KeysOf(before)
          THEN {"modified"} ELSE {})
    \cup (IF \E r \in before : <<r.url, r.query>> \notin KeysOf(after) THEN {"deleted"} ELSE {})

\* getCache(): the first use opens the database and purges the expired rows
getCacheRows(rows, open, now) == IF open THEN rows ELSE PurgeRows(rows, now)

\* no call of the functions that are followed on their own
NoDetection == [isSPA |-> FALSE, score |-> 0, confidence |-> "none", reasons |-> <<>>]
NoQueryGiven == [text |-> <<>>, limit |-> 0]
BrowserIdle == pw = <<>>
DetectIdle == htmlArg = <<>> /\ report = NoDetection
PageIdle ==
    /\ doc = NullV
    /\ record = NullV
    /\ chunkList = NullV
    /\ queryArg = NoQueryGiven
    /\ ranked = NullV
LibIdle == BrowserIdle /\ DetectIdle /\ PageIdle

\* no page cached, no render() call
CoreIdle ==
    /\ db = {}
    /\ clock = 0
    /\ lastOp = NoOp
    /\ cacheOpen = FALSE
    /\ calls = [p \in Calls |-> IdleCall]

InitCache ==
    /\ CoreIdle
    /\ LibIdle

NextCache ==
    \/ Tick
    \/ \E k \in Keys : Get(k[1], k[2])
    \/ \E c \in Caches, k \in Keys, r \in UnitResults, t \in TTLs :
          Set(c, k[1], k[2], r, t)
    \/ \E u \in URLs : Invalidate(u)
    \/ PurgeExpired

SpecCache == InitCache /\ [][NextCache]_vars

TypeOK ==
    /\ clock \in 0..MaxTime
    /\ \A r \in db : r.url \in URLs /\ r.query \in Queries


\* ---------------------------------------------------------- render actions
\* render() up to its first await: getCache(), the cache lookup, and either
\* the return of the hit or the start of fetchRaw.
RenderStart(p, u, query, force, noCache, ttlArg) ==
    /\ calls[p].pc \in {"idle", "done", "threw"}
    /\ LET opened == getCacheRows(db, cacheOpen, clock)
           base == [IdleCall EXCEPT !.url = u, !.query = query, !.force = force,
                                    !.noCache = noCache, !.cacheTtlMs = ttlArg,
                                    !.t0 = clock, !.opened = ~cacheOpen,
                                    !.live = {r.result_json : r \in
                                        {m \in Matching(db, u, CacheKey(query)) :
                                             m.expires_at >= clock}}]
       IN  IF ~noCache /\ force = NoForce
           THEN \E o \in GetOutcomes(opened, u, CacheKey(query), clock) :
                  /\ \A r \in o.rows : r.hit_count <= MaxHits
                  /\ db' = o.rows
                  /\ calls' = [calls EXCEPT ![p] =
                        IF Truthy(o.ret)
                        THEN [base EXCEPT !.pc = "done",
                                          !.ret = HitResult(o.ret, clock, clock),
                                          !.effects = {"cache.get"},
                                          !.touched = Touched(db, o.rows)]
                        ELSE [base EXCEPT !.pc = "fetching",
                                          !.effects = {"cache.get", "fetchRaw"},
                                          !.touched = Touched(db, o.rows)]]
           ELSE /\ db' = opened
                /\ calls' = [calls EXCEPT ![p] =
                        [base EXCEPT !.pc = "fetching", !.effects = {"fetchRaw"},
                                     !.touched = Touched(db, opened)]]
    /\ cacheOpen' = TRUE
    /\ UNCHANGED <<clock, lastOp, libVars>>

\* faulty variant: the result is stored although noCache is set
Finish_ignoresNoCache(p, c, backend, data) ==
    LET result == buildResult(c.url, backend, detectSPA(Body(c.rawHtml)), data, c.query, c.t0, clock)
        ttl == IF c.cacheTtlMs # Undefined THEN c.cacheTtlMs
               ELSE IF backend = "playwright" THEN PlaywrightTtl ELSE LiteTtl
    IN  \E rows \in SetOutcomes(db, SharedMax, c.url, CacheKey(c.query), result, ttl, clock) :
               /\ db' = rows
               /\ calls' = [calls EXCEPT ![p] =
                     [c EXCEPT !.pc = "done", !.ret = result,
                               !.effects = @ \cup {"chunkPage", "cache.set"},
                               !.touched = @ \cup Touched(db, rows)]]

\* buildResult, the cache store and the return (the call's locals are c)
Finish(p, c, backend, data) ==
    LET result == buildResult(c.url, backend, detectSPA(Body(c.rawHtml)), data, c.query, c.t0, clock)
        ttl == IF c.cacheTtlMs # Undefined THEN c.cacheTtlMs
               ELSE IF backend = "playwright" THEN PlaywrightTtl ELSE LiteTtl
    IN  IF ~c.noCache /\ BackendOf(result) # "error"
        THEN \E rows \in SetOutcomes(db, SharedMax, c.url, CacheKey(c.query), result, ttl, clock) :
               /\ db' = rows
               /\ calls' = [calls EXCEPT ![p] =
                     [c EXCEPT !.pc = "done", !.ret = result,
                               !.effects = @ \cup {"chunkPage", "cache.set"},
                               !.touched = @ \cup Touched(db, rows)]]
        ELSE /\ db' = db
             /\ calls' = [calls EXCEPT ![p] =
                     [c EXCEPT !.pc = "done", !.ret = result,
                               !.effects = @ \cup {"chunkPage"}]]

\* the return inside the catch block of the fallback
FinishFallback(p, c, data) ==
    /\ calls' = [calls EXCEPT ![p] =
          [c EXCEPT !.pc = "done",
                    !.ret = buildResult(c.url, "lite-fallback", detectSPA(Body(c.rawHtml)),
                                        data, c.query, c.t0, clock),
                    !.effects = @ \cup {"chunkPage"}]]
    /\ db' = db

ReturnError(p, c, message) ==
    /\ calls' = [calls EXCEPT ![p] =
          [c EXCEPT !.pc = "done", !.ret = ErrorResult(c.url, message, c.t0, clock)]]
    /\ db' = db

\* faulty variant: the rejection of fetchRaw is not caught
FetchRawFails_rethrows(p) ==
    /\ calls[p].pc = "fetching"
    /\ calls' = [calls EXCEPT ![p].pc = "threw",
                              ![p].effects = @ \cup {"fetchRaw.rejected"}]
    /\ UNCHANGED <<db, clock, lastOp, cacheOpen, libVars>>

\* fetchRaw rejects: transport error, or abort by the timeout timer
FetchRawFails(p) ==
    /\ calls[p].pc = "fetching"
    /\ ReturnError(p, [calls[p] EXCEPT !.effects = @ \cup {"fetchRaw.rejected"}],
                   "Fetch failed")
    /\ UNCHANGED <<clock, lastOp, cacheOpen, libVars>>

\* fetchRaw resolves (whatever the status); detection, the choice of backend,
\* and the lite render of the fetched document or the start of the browser
FetchRawReturns(p, resp) ==
    /\ calls[p].pc = "fetching"
    /\ LET c == [calls[p] EXCEPT !.rawHtml = resp.html,
                     !.effects = @ \cup {"detectSPA"}
                                   \cup (IF ResponseOk(resp) THEN {} ELSE {"non2xx"})]
           detection == detectSPA(Body(resp.html))
           useLite == c.force = "lite" \/ (c.force = NoForce /\ ~detection.isSPA)
       IN  IF useLite
           THEN IF resp.html # ""
                THEN Finish(p, [c EXCEPT !.effects = @ \cup {"renderLite"}], "lite",
                            renderLitePrefetched(c.url, resp.html))
                ELSE /\ calls' = [calls EXCEPT ![p] =
                            [c EXCEPT !.pc = "liteFetching",
                                      !.effects = @ \cup {"renderLite", "renderLite.fetch"}]]
                     /\ db' = db
           ELSE /\ calls' = [calls EXCEPT ![p] =
                        [c EXCEPT !.pc = "browser", !.effects = @ \cup {"renderWithPlaywright"}]]
                /\ db' = db
    /\ UNCHANGED <<clock, lastOp, cacheOpen, libVars>>

\* renderWithPlaywright resolves
BrowserReturns(p) ==
    /\ calls[p].pc = "browser"
    /\ Finish(p, calls[p], "playwright", PlaywrightData(calls[p].url))
    /\ UNCHANGED <<clock, lastOp, cacheOpen, libVars>>

\* renderWithPlaywright rejects: the catch block falls back to renderLite
BrowserThrows(p) ==
    /\ calls[p].pc = "browser"
    /\ LET c == [calls[p] EXCEPT !.effects = @ \cup {"renderWithPlaywright.rejected", "renderLite"}]
       IN  IF c.rawHtml # ""
           THEN FinishFallback(p, c, renderLitePrefetched(c.url, c.rawHtml))
           ELSE /\ calls' = [calls EXCEPT ![p] =
                       [c EXCEPT !.pc = "fallbackFetching",
                                 !.effects = @ \cup {"renderLite.fetch"}]]
                /\ db' = db
    /\ UNCHANGED <<clock, lastOp, cacheOpen, libVars>>

\* the fetch that renderLite issues itself resolves
LiteFetchReturns(p, resp) ==
    /\ calls[p].pc \in {"liteFetching", "fallbackFetching"}
    /\ IF ~ResponseOk(resp)
       THEN ReturnError(p, [calls[p] EXCEPT !.effects = @ \cup {"renderLite.rejected"}],
                        "HTTP status")
       ELSE IF calls[p].pc = "liteFetching"
            THEN Finish(p, calls[p], "lite", renderLiteFetched(calls[p].url, resp))
            ELSE FinishFallback(p, calls[p], renderLiteFetched(calls[p].url, resp))
    /\ UNCHANGED <<clock, lastOp, cacheOpen, libVars>>

\* the fetch that renderLite issues itself rejects
LiteFetchFails(p) ==
    /\ calls[p].pc \in {"liteFetching", "fallbackFetching"}
    /\ ReturnError(p, [calls[p] EXCEPT !.effects = @ \cup {"renderLite.rejected"}],
                   "fetch failed")
    /\ UNCHANGED <<clock, lastOp, cacheOpen, libVars>>

\* invalidateCache(url)
InvalidateCache(u) ==
    /\ db' = InvalidateRows(getCacheRows(db, cacheOpen, clock), u)
    /\ cacheOpen' = TRUE
    /\ UNCHANGED <<clock, lastOp, calls, libVars>>

\* cacheStats()
CacheStats ==
    /\ db' = getCacheRows(db, cacheOpen, clock)
    /\ cacheOpen' = TRUE
    /\ UNCHANGED <<clock, lastOp, calls, libVars>>

\* rows that an earlier process left in the database
PersistedResult ==
    buildResult("u1", "lite", detectSPA(Body("static")), renderLitePrefetched("u1", "static"),
                NoQuery, 0, 1)
PersistedRow(u, q, expiresAt) ==
    Row(u, q, "lite", JSONstringify(stripUnserializable(PersistedResult, 0)),
        -2, expiresAt, 0, -2)
PersistedStores ==
    {{}, {PersistedRow("u1", "", -1)}, {PersistedRow("u1", "", 1)},
     {PersistedRow("u2", "", 1)}}

InitRender ==
    /\ db \in PersistedStores
    /\ clock = 0
    /\ lastOp = NoOp
    /\ cacheOpen = FALSE
    /\ calls = [p \in Calls |-> IdleCall]
    /\ LibIdle

NextRender ==
    \/ Tick
    \/ \E p \in Calls, u \in RenderURLs, q \in QueryArgs, f \in ForceArgs,
          n \in BOOLEAN, t \in RenderTtls : RenderStart(p, u, q, f, n, t)
    \/ \E p \in Calls : FetchRawFails(p)
    \/ \E p \in Calls, resp \in Responses : FetchRawReturns(p, resp)
    \/ \E p \in Calls : BrowserReturns(p)
    \/ \E p \in Calls : BrowserThrows(p)
    \/ \E p \in Calls, resp \in Responses : LiteFetchReturns(p, resp)
    \/ \E p \in Calls : LiteFetchFails(p)
    \/ \E u \in URLs : InvalidateCache(u)
    \/ CacheStats

Spec == InitRender /\ [][NextRender]_vars

\* ------------------------------------------- render with a failing database
\* The statements of node:sqlite throw on a backing-store error (unwritable
\* directory, locked or corrupt file, full disk).  render() calls getCache(),
\* cache.get and cache.set outside of every try block, so the exception leaves
\* render() as a rejection of its promise.
CacheFaults == {"getCache.new", "getCache.purgeExpired", "cache.get"}
CacheFaultEffects == {f \o ".threw" : f \in CacheFaults} \cup {"cache.set.threw"}

\* getCache() or cache.get throws in the synchronous head of render()
RenderStartCacheFails(p, u, query, force, noCache, ttlArg, fault) ==
    /\ calls[p].pc \in {"idle", "done", "threw"}
    /\ fault \in {"getCache.new", "getCache.purgeExpired"} => ~cacheOpen
    /\ fault = "cache.get" => ~noCache /\ force = NoForce
    /\ calls' = [calls EXCEPT ![p] =
          [IdleCall EXCEPT !.pc = "threw", !.url = u, !.query = query, !.force = force,
                           !.noCache = noCache, !.cacheTtlMs = ttlArg, !.t0 = clock,
                           !.opened = ~cacheOpen /\ fault # "getCache.new",
                           !.effects = {fault \o ".threw"}]]
    \* _cache is assigned before purgeExpired runs, and not at all when the
    \* constructor throws
    /\ cacheOpen' = (cacheOpen \/ fault # "getCache.new")
    /\ db' = IF fault = "cache.get" THEN getCacheRows(db, cacheOpen, clock) ELSE db
    /\ UNCHANGED <<clock, lastOp, libVars>>

\* buildResult has produced a result and cache.set throws on its INSERT
FinishCacheSetFails(p, c, backend, data) ==
    /\ ~c.noCache
    /\ calls' = [calls EXCEPT ![p] =
          [c EXCEPT !.pc = "threw",
                    !.effects = @ \cup {"chunkPage", "cache.set", "cache.set.threw"}]]
    /\ db' = db

\* the step of render() that ends in the cache store, with the store failing:
\* the lite render of a fetched document, the return of the browser, or the
\* return of the fetch that renderLite issued
CacheSetFails(p, resp) ==
    /\ \/ /\ calls[p].pc = "fetching"
          /\ resp.html # ""
          /\ calls[p].force = "lite" \/ (calls[p].force = NoForce /\ ~detectSPA(Body(resp.html)).isSPA)
          /\ FinishCacheSetFails(p, [calls[p] EXCEPT !.rawHtml = resp.html,
                                        !.effects = @ \cup {"detectSPA", "renderLite"}],
                                 "lite", renderLitePrefetched(calls[p].url, resp.html))
       \/ /\ calls[p].pc = "browser"
          /\ resp.html = calls[p].rawHtml /\ resp.status = 200
          /\ FinishCacheSetFails(p, calls[p], "playwright", PlaywrightData(calls[p].url))
       \/ /\ calls[p].pc = "liteFetching"
          /\ ResponseOk(resp)
          /\ FinishCacheSetFails(p, calls[p], "lite", renderLiteFetched(calls[p].url, resp))
    /\ UNCHANGED <<clock, lastOp, cacheOpen, libVars>>

NextFaults ==
    \/ NextRender
    \/ \E p \in Calls, u \in RenderURLs, q \in QueryArgs, f \in ForceArgs,
          n \in BOOLEAN, t \in RenderTtls, fault \in CacheFaults :
          RenderStartCacheFails(p, u, q, f, n, t, fault)
    \/ \E p \in Calls, resp \in Responses : CacheSetFails(p, resp)

SpecFaults == InitRender /\ [][NextFaults]_vars

\* ================================================================== claims

\* C1 (as stated): a get(url, q) issued immediately after set(url, q, r, ttl)
\* with ttl > 0 returns r after the strip-unserializable transform, never
\* null, whatever the cache held before (full or over-full store, rows whose
\* last_hit equals the current time).
C1_RoundTripAlways ==
    [][(/\ lastOp.op = "set" /\ lastOp.ttl > 0
        /\ lastOp'.op = "get"
        /\ lastOp'.url = lastOp.url /\ lastOp'.query = lastOp.query)
       => lastOp'.ret = stripUnserializable(lastOp.result, 0)]_vars

\* C2: a get on a row with expires_at < now returns null and deletes the
\* row, which stats() then no longer counts; a get on a key without a row
\* returns null and rows appear only through a set on their key, so later
\* gets keep returning null; a row with expires_at >= now is returned.
C2_Expiry ==
    [][/\ lastOp'.op = "get" =>
            LET m == Matching(db, lastOp'.url, lastOp'.query)
            IN  /\ (\E r \in m : r.expires_at < clock) =>
                      /\ lastOp'.ret = NullV
                      /\ Matching(db', lastOp'.url, lastOp'.query) = {}
                      /\ StatsEntries(db') = StatsEntries(db) - 1
                /\ m = {} => lastOp'.ret = NullV /\ db' = db
                /\ \A r \in m : r.expires_at >= clock =>
                      lastOp'.ret = JSONparse(r.result_json) /\ lastOp'.ret # NullV
       /\ \A k \in Keys :
            (Matching(db, k[1], k[2]) = {} /\ Matching(db', k[1], k[2]) # {})
               => lastOp'.op = "set" /\ lastOp'.url = k[1] /\ lastOp'.query = k[2]
      ]_vars

\* an expired row was looked up: null came back and the row is gone
C2_Witness ==
    /\ lastOp.op = "get" /\ lastOp.log = "EXPIRED" /\ lastOp.had
    /\ lastOp.ret = NullV
    /\ Matching(db, lastOp.url, lastOp.query) = {}

\* C3: when a set on a PageCache with maxEntries = M has returned, the table
\* holds at most M rows, however many it held before the call.
C3_EvictionBound ==
    lastOp.op = "set" => StatsEntries(db) <= maxEntries(lastOp.cache)

\* a set through the small cache found the store over its limit (rows written
\* through the other object) and evicted more than the row it added
C3_Witness ==
    /\ lastOp.op = "set" /\ lastOp.cache = "lruCache"
    /\ lastOp.evicted >= 2
    /\ StatsEntries(db) = maxEntries("lruCache")

\* C4: invalidate(url) deletes exactly the rows of that url, for all queries,
\* returns their number and leaves every other row as it was; a get on a key
\* that has no row returns null.
C4_Invalidate ==
    [][/\ lastOp'.op = "invalidate" =>
            /\ db' = {r \in db : r.url # lastOp'.url}
            /\ lastOp'.changes = Cardinality({r \in db : r.url = lastOp'.url})
            /\ \A q \in Queries : Matching(db', lastOp'.url, q) = {}
       /\ (lastOp'.op = "get" /\ Matching(db, lastOp'.url, lastOp'.query) = {})
            => lastOp'.ret = NullV
      ]_vars

\* invalidate removed both query variants of a url
C4_Witness ==
    /\ lastOp.op = "invalidate" /\ lastOp.changes = 2
    /\ \A q \in Queries : Matching(db, lastOp.url, q) = {}

\* C5: there is never more than one row per (url, query); after
\* set(url, q, r) every row of that key holds r, and when the set triggers no
\* eviction the key has exactly one row and every other row, the same url
\* under another query included, is unchanged.
UniqueKeys == \A a \in db, b \in db : (a.url = b.url /\ a.query = b.query) => a = b

C6_CacheHit ==
    \A p \in Calls :
        LET c == calls[p]
        IN  (c.pc # "idle" /\ ~c.noCache /\ c.force = NoForce /\ c.live # {}) =>
              /\ c.pc = "done"
              /\ \E j \in c.live :
                    LET stored == JSONparse(j)
                    IN  /\ DOMAIN c.ret.props = DOMAIN stored.props \cup {"cached"}
                        /\ \A k \in DOMAIN stored.props \ {"ms"} :
                               c.ret.props[k] = stored.props[k]
              /\ c.ret.props["cached"] = Bool(TRUE)
              /\ c.ret.props["ms"] = Num(0)
              /\ c.effects = {"cache.get"}
              /\ "created" \notin c.touched

\* a hit on an entry whose stored ms differs from the ms of the hit
C6_Witness ==
    \E p \in Calls :
        /\ calls[p].pc = "done" /\ calls[p].effects = {"cache.get"}
        /\ calls[p].ret.props["cached"] = Bool(TRUE)
        /\ \E j \in calls[p].live : JSONparse(j).props["ms"] # calls[p].ret.props["ms"]

\* what every noCache call does, first call or not: it fetches, never looks
\* the key up, and its result is not marked cached
NoCacheFetches ==
    \A p \in Calls :
        (calls[p].pc # "idle" /\ calls[p].noCache) =>
            /\ "fetchRaw" \in calls[p].effects
            /\ "cache.get" \notin calls[p].effects
            /\ calls[p].pc = "done" => "cached" \notin DOMAIN calls[p].ret.props

\* C7 (as stated): a noCache call fetches, is not marked cached and leaves
\* the table exactly as it was, also when it is the first call of the process.
C7_NoCacheLeavesStore ==
    /\ []NoCacheFetches
    /\ [][\A p \in Calls :
            (calls'[p] # calls[p] /\ calls'[p].noCache) => db' = db]_vars

\* C7 (amended): a noCache call fetches, is not marked cached, and adds,
\* replaces or updates no row; it deletes none either, except that the call
\* that opens the cache (the first use in the process) purges the rows that
\* are expired at that moment.
C7_NoCacheBypass ==
    /\ []NoCacheFetches
    /\ [][\A p \in Calls :
            (calls'[p] # calls[p] /\ calls'[p].noCache) =>
                db' = IF cacheOpen THEN db ELSE {r \in db : r.expires_at >= clock}]_vars

\* a noCache call that opened the cache, purged an expired row and returned
\* a rendered page
C7_Witness ==
    \E p \in Calls :
        /\ calls[p].pc = "done" /\ calls[p].noCache /\ calls[p].opened
        /\ "deleted" \in calls[p].touched
        /\ BackendOf(calls[p].ret) # "error"

InFlight == {"fetching", "browser", "liteFetching", "fallbackFetching"}

\* C8 (as stated): a call with noCache = false that was not served from the
\* cache and returns backend lite, playwright or lite-fallback has stored the
\* returned result under (url, query ?? "") when it returns, unexpired.
C8_ResultCached ==
    [][\A p \in Calls :
          (/\ calls[p].pc \in InFlight /\ calls'[p].pc = "done"
           /\ ~calls'[p].noCache
           /\ BackendOf(calls'[p].ret) \in {"lite", "playwright", "lite-fallback"})
          => \E r \in Matching(db', calls'[p].url, CacheKey(calls'[p].query)) :
                /\ r.result_json = JSONstringify(stripUnserializable(calls'[p].ret, 0))
                /\ r.expires_at >= clock']_vars

\* C9 (as stated): when renderWithPlaywright throws, the call returns
\* lite-fallback with the lite record of the raw HTML it fetched, and error
\* only if the lite fallback failed as well.
C9_FallbackTransparent ==
    \A p \in Calls :
        LET c == calls[p]
        IN  (c.pc = "done" /\ "renderWithPlaywright.rejected" \in c.effects) =>
              /\ BackendOf(c.ret) \in {"lite-fallback", "error"}
              /\ BackendOf(c.ret) = "lite-fallback" =>
                    c.ret.props["data"] = renderLitePrefetched(c.url, c.rawHtml)
              /\ BackendOf(c.ret) = "error" => "renderLite.rejected" \in c.effects

\* C10: when fetchRaw fails, render returns (does not throw) a result with
\* backend = "error" and an error message, having run no detection, render or
\* chunking, and having created or changed no cache row.
C10_FetchFailure ==
    \A p \in Calls :
        LET c == calls[p]
        IN  "fetchRaw.rejected" \in c.effects =>
              /\ c.pc = "done"
              /\ BackendOf(c.ret) = "error"
              /\ "error" \in DOMAIN c.ret.props
              /\ c.effects \cap {"detectSPA", "renderLite", "renderWithPlaywright",
                                 "chunkPage", "cache.set"} = {}
              /\ c.touched \cap {"created", "modified"} = {}

\* the lookup missed, the fetch failed, and the cache still holds rows
C10_Witness ==
    \E p \in Calls :
        /\ "fetchRaw.rejected" \in calls[p].effects
        /\ "cache.get" \in calls[p].effects
        /\ calls[p].pc = "done" /\ BackendOf(calls[p].ret) = "error"
        /\ db # {}


\* C11 (as stated): a backing-store error while render() opens the cache,
\* looks the key up or stores the result never makes the call throw: no call
\* ends as a rejection after getCache(), cache.get or cache.set threw.
C11_CacheFailureMasked ==
    \A p \in Calls :
        ~(calls[p].pc = "threw" /\ calls[p].effects \cap CacheFaultEffects # {})


\* ==================================================== renderWithPlaywright
\* Two calls run interleaved; each owns the browser it launched.
PwCalls == {"w1", "w2"}
PwIdle == [pc |-> "idle", blockMedia |-> TRUE, browser |-> "none",
           failed |-> "", outcome |-> ""]

\* renderWithPlaywright(url, options) is called
PwStart(w, blockMedia) ==
    /\ pw[w].pc \in {"idle", "returned", "threw"}
    /\ pw' = [pw EXCEPT ![w] = [PwIdle EXCEPT !.pc = "import", !.blockMedia = blockMedia]]
    /\ UNCHANGED <<cacheVars, renderVars, detectVars, pageVars>>

\* await import('playwright'), inside its own try/catch that rethrows
PwImport(w, ok) ==
    /\ pw[w].pc = "import"
    /\ pw' = [pw EXCEPT ![w] = IF ok THEN [@ EXCEPT !.pc = "launch"]
                                ELSE [@ EXCEPT !.pc = "threw", !.failed = "import"]]
    /\ UNCHANGED <<cacheVars, renderVars, detectVars, pageVars>>

\* await chromium.launch(...): a rejected launch leaves no browser
PwLaunch(w, ok) ==
    /\ pw[w].pc = "launch"
    /\ pw' = [pw EXCEPT ![w] = IF ok THEN [@ EXCEPT !.pc = "newContext", !.browser = "open"]
                                ELSE [@ EXCEPT !.pc = "threw", !.failed = "launch"]]
    /\ UNCHANGED <<cacheVars, renderVars, detectVars, pageVars>>

\* await browser.newContext(...), before the try block
PwNewContext(w, ok) ==
    /\ pw[w].pc = "newContext"
    /\ pw' = [pw EXCEPT ![w] = IF ok THEN [@ EXCEPT !.pc = "newPage"]
                                ELSE [@ EXCEPT !.pc = "threw", !.failed = "newContext"]]
    /\ UNCHANGED <<cacheVars, renderVars, detectVars, pageVars>>

\* await context.newPage(), before the try block; then the try block is
\* entered and page.route is called unless options.blockMedia === false
PwNewPage(w, ok) ==
    /\ pw[w].pc = "newPage"
    /\ pw' = [pw EXCEPT ![w] =
                IF ok THEN [@ EXCEPT !.pc = IF pw[w].blockMedia THEN "route" ELSE "goto"]
                ELSE [@ EXCEPT !.pc = "threw", !.failed = "newPage"]]
    /\ UNCHANGED <<cacheVars, renderVars, detectVars, pageVars>>

\* The steps inside try { ... } finally { await browser.close() }: a rejection
\* runs the finally block before it leaves the function.
\* await page.route(pattern, r => r.abort())
PwRoute(w, ok) ==
    /\ pw[w].pc = "route"
    /\ pw' = [pw EXCEPT ![w] = IF ok THEN [@ EXCEPT !.pc = "goto"]
                                ELSE [@ EXCEPT !.pc = "close", !.failed = "route",
                                               !.outcome = "threw"]]
    /\ UNCHANGED <<cacheVars, renderVars, detectVars, pageVars>>

\* await page.goto(url, ...)
PwGoto(w, ok) ==
    /\ pw[w].pc = "goto"
    /\ pw' = [pw EXCEPT ![w] = IF ok THEN [@ EXCEPT !.pc = "waitForFunction"]
                                ELSE [@ EXCEPT !.pc = "close", !.failed = "goto",
                                               !.outcome = "threw"]]
    /\ UNCHANGED <<cacheVars, renderVars, detectVars, pageVars>>

\* await page.waitForFunction(...) in its own try with an empty catch
PwWaitForFunction(w, ok) ==
    /\ pw[w].pc = "waitForFunction"
    /\ pw' = [pw EXCEPT ![w] = [@ EXCEPT !.pc = "evaluate"]]
    /\ UNCHANGED <<cacheVars, renderVars, detectVars, pageVars>>

\* await page.evaluate(...); return data runs the finally block
PwEvaluate(w, ok) ==
    /\ pw[w].pc = "evaluate"
    /\ pw' = [pw EXCEPT ![w] = IF ok THEN [@ EXCEPT !.pc = "close", !.outcome = "returned"]
                                ELSE [@ EXCEPT !.pc = "close", !.failed = "evaluate",
                                               !.outcome = "threw"]]
    /\ UNCHANGED <<cacheVars, renderVars, detectVars, pageVars>>

\* finally { await browser.close(); }
PwClose(w) ==
    /\ pw[w].pc = "close"
    /\ pw' = [pw EXCEPT ![w] = [@ EXCEPT !.pc = pw[w].outcome, !.browser = "closed"]]
    /\ UNCHANGED <<cacheVars, renderVars, detectVars, pageVars>>

InitPlaywright ==
    /\ CoreIdle
    /\ pw = [w \in PwCalls |-> PwIdle]
    /\ DetectIdle
    /\ PageIdle

NextPlaywright ==
    \/ \E w \in PwCalls, b \in BOOLEAN : PwStart(w, b)
    \/ \E w \in PwCalls, ok \in BOOLEAN : PwImport(w, ok)
    \/ \E w \in PwCalls, ok \in BOOLEAN : PwLaunch(w, ok)
    \/ \E w \in PwCalls, ok \in BOOLEAN : PwNewContext(w, ok)
    \/ \E w \in PwCalls, ok \in BOOLEAN : PwNewPage(w, ok)
    \/ \E w \in PwCalls, ok \in BOOLEAN : PwRoute(w, ok)
    \/ \E w \in PwCalls, ok \in BOOLEAN : PwGoto(w, ok)
    \/ \E w \in PwCalls, ok \in BOOLEAN : PwWaitForFunction(w, ok)
    \/ \E w \in PwCalls, ok \in BOOLEAN : PwEvaluate(w, ok)
    \/ \E w \in PwCalls : PwClose(w)

SpecPlaywright == InitPlaywright /\ [][NextPlaywright]_vars

\* C12 (as stated): every browser that renderWithPlaywright launches is closed
\* when the call returns or throws, whichever step failed (new context, new
\* page, route interception, goto, wait-for-text or extraction).
C12_BrowserClosed ==
    \A w \in PwCalls : pw[w].pc \in {"returned", "threw"} => pw[w].browser # "open"

\* useLite of a call, from its force option and the detection of its raw HTML
UseLite(c) == c.force = "lite" \/ (c.force = NoForce /\ ~detectSPA(Body(c.rawHtml)).isSPA)

\* C13 (as stated): in a call that was not served from the cache and whose raw
\* fetch resolved, the lite path is taken iff force = "lite" or force is unset
\* and the page is not detected as SPA, otherwise the browser path; the call
\* returns "lite" exactly when the lite path was chosen, "playwright" exactly
\* when the browser succeeded, "lite-fallback" exactly when the browser was
\* chosen and failed and the lite parse succeeded.
C13_BackendChoice ==
    \A p \in Calls :
        LET c == calls[p]
            browser == "renderWithPlaywright" \in c.effects
            browserFailed == "renderWithPlaywright.rejected" \in c.effects
        IN  (c.pc = "done" /\ "detectSPA" \in c.effects) =>
              /\ UseLite(c) <=> ("renderLite" \in c.effects /\ ~browser)
              /\ ~UseLite(c) <=> browser
              /\ BackendOf(c.ret) = "lite" <=> UseLite(c)
              /\ BackendOf(c.ret) = "playwright" <=> (browser /\ ~browserFailed)
              /\ BackendOf(c.ret) = "lite-fallback" <=>
                    (browser /\ browserFailed /\ "renderLite.rejected" \notin c.effects)

\* ==================================================== detectSPA on its own
MaxFrags == 3         \* the HTML strings detectSPA is given have up to MaxFrags fragments

\* the fragments the HTML strings are made of, and the strings: up to MaxFrags
\* fragments, in the order of this list
Fragments ==
    <<RootDiv, NextDataScript, Markup(4770), Word(240), Word(600), Script(50000),
      Heading, Paragraph(30), LdJson, MetaGenerator, Skeleton>>
HTMLStrings ==
    UNION {{[i \in 1..n |-> Fragments[ix[i]]] :
              ix \in {f \in [1..n -> 1..Len(Fragments)] :
                         \A i \in 1..n, j \in 1..n : i < j => f[i] <= f[j]}} :
           n \in 0..MaxFrags}

\* h with the fragment f put in after its first i fragments
InsertAt(h, i, f) == SubSeq(h, 1, i) \o <<f>> \o SubSeq(h, i + 1, Len(h))

\* detectSPA(html) is called
Detect ==
    /\ report = NoDetection
    /\ report' = detectSPA(htmlArg)
    /\ UNCHANGED <<htmlArg, cacheVars, renderVars, browserVars, pageVars>>

\* the text of signal s, which does not fire on the string, is inserted and
\* detectSPA is called on the new string
InsertSignal(s, i) ==
    /\ report # NoDetection
    /\ htmlArg \in HTMLStrings
    /\ i <= Len(htmlArg)
    /\ ~Fires(htmlArg, s)
    /\ htmlArg' = InsertAt(htmlArg, i, SignalText[s])
    /\ report' = detectSPA(htmlArg')
    /\ UNCHANGED <<cacheVars, renderVars, browserVars, pageVars>>

InitDetect ==
    /\ CoreIdle
    /\ BrowserIdle
    /\ PageIdle
    /\ htmlArg \in HTMLStrings
    /\ report = NoDetection

NextDetect ==
    \/ Detect
    \/ \E s \in 1..Len(spaSignals), i \in 0..(MaxFrags + 1) : InsertSignal(s, i)

SpecDetect == InitDetect /\ [][NextDetect]_vars

\* The signals that fire on h, each with its weight: the framework patterns,
\* the two text-ratio signals (the second only when the first does not fire),
\* script-heavy, skeleton, no semantic content, meta generator, and the
\* ld+json discount.
HtmlSize(h) == Sum([i \in 1..Len(h) |-> h[i].len], 1)
ScriptSize(h) == Sum([i \in 1..Len(h) |-> IF h[i].kind = "script" THEN h[i].len ELSE 0], 1)
TextRatioBelow(h, percent) ==
    100 * TextLength(h, 1, FALSE, FALSE) < percent * Max(HtmlSize(h), 1)
TextRatioAbove(h, percent) ==
    100 * TextLength(h, 1, FALSE, FALSE) > percent * Max(HtmlSize(h), 1)
LdJsonDiscount(h) == (\E i \in 1..Len(h) : h[i].ldjson) /\ TextRatioAbove(h, 15)
FiringSignals(h) ==
    {[name |-> spaSignals[s].reason, weight |-> spaSignals[s].weight] :
        s \in {s \in 1..Len(spaSignals) : Fires(h, s)}}
    \cup (IF TextRatioBelow(h, 5) /\ HtmlSize(h) > 5000
          THEN {[name |-> "very low text ratio", weight |-> 4]}
          ELSE IF TextRatioBelow(h, 10) /\ HtmlSize(h) > 10000
               THEN {[name |-> "low text ratio", weight |-> 2]} ELSE {})
    \cup (IF 2 * ScriptSize(h) > Max(HtmlSize(h), 1)
          THEN {[name |-> "script-heavy", weight |-> 2]} ELSE {})
    \cup (IF Cardinality(UNION {h[i].skeleton : i \in 1..Len(h)}) >= 2
          THEN {[name |-> "skeleton", weight |-> 2]} ELSE {})
    \cup (IF /\ \A i \in 1..Len(h) : h[i].headings = 0
             /\ Sum([i \in 1..Len(h) |-> h[i].paragraphs], 1) < 3
             /\ HtmlSize(h) > 20000
          THEN {[name |-> "no semantic content", weight |-> 3]} ELSE {})
    \cup (IF \E i \in 1..Len(h) : h[i].meta
          THEN {[name |-> "meta generator", weight |-> 2]} ELSE {})
    \cup (IF LdJsonDiscount(h) THEN {[name |-> "ld+json", weight |-> 0 - 2]} ELSE {})

RECURSIVE WeightedSum(_)
WeightedSum(S) ==
    IF S = {} THEN 0
    ELSE LET x == CHOOSE x \in S : TRUE IN x.weight + WeightedSum(S \ {x})

\* C14: isSPA holds exactly when the weighted sum of the firing signals is
\* >= 4; confidence is high from 8, medium from 4 to 7, low below; hence isSPA
\* iff confidence is not low; and a string on which a weight-4 signal fires
\* and the ld+json discount does not is classified as SPA.
C14_Classification ==
    report # NoDetection =>
        LET sum == WeightedSum(FiringSignals(htmlArg))
        IN  /\ report.isSPA <=> sum >= 4
            /\ report.confidence =
                  (IF sum >= 8 THEN "high" ELSE IF sum >= 4 THEN "medium" ELSE "low")
            /\ report.isSPA <=> report.confidence # "low"
            /\ ((\E f \in FiringSignals(htmlArg) : f.weight = 4) /\ ~LdJsonDiscount(htmlArg))
                  => report.isSPA

\* detectSPA has classified a string on which a weight-4 signal fires and the
\* discount does not, with a sum below 8
C14_Witness ==
    /\ report # NoDetection
    /\ \E f \in FiringSignals(htmlArg) : f.weight = 4
    /\ ~LdJsonDiscount(htmlArg)
    /\ report.isSPA
    /\ report.confidence = "medium"

\* C17 (as stated): inserting the text of a positive-weighted signal that does
\* not fire on an HTML string gives a string whose detectSPA score is not
\* lower, the changes of size and ratios included.
C17_Monotone ==
    [][\A s \in 1..Len(spaSignals), i \in 0..Len(htmlArg) :
          (/\ report # NoDetection
           /\ ~Fires(htmlArg, s)
           /\ htmlArg' = InsertAt(htmlArg, i, SignalText[s]))
          => report'.score >= report.score]_vars

\* ============================================ PageRecords: lite and browser
\* A document is described by what the extractors find in it: the number of
\* headings with text, of links, forms, images and tables that pass the
\* filters, and the number of characters of its text.  A list of n items is
\* the sequence 1..n; a string is given by its length.
Items(n) == [i \in 1..n |-> i]
Text(n) == [t |-> "string", len |-> n]
Min(a, b) == IF a <= b THEN a ELSE b
\* list.slice(0, n), str.slice(0, n)
SliceItems(list, n) == SubSeq(list, 1, Min(Len(list), n))
SliceText(str, n) == Text(Min(str.len, n))

ImageCap == 50           \* images.slice(0, 50)
TableCap == 10           \* tables.slice(0, 10)
LiteTextCap == 5000      \* decodeEntities(text).slice(0, 5000)
BrowserLinkCap == 100    \* .slice(0, 100)
BrowserTextCap == 50000  \* text.slice(0, 50000)

\* the documents: none, one, and more items than the caps
Docs ==
    [headings : {0, 2}, links : {0, 1, BrowserLinkCap + 1}, forms : {0, 1},
     images : {0, ImageCap + 1}, tables : {0, TableCap + 1},
     text : {0, LiteTextCap + 1, BrowserTextCap + 1}]

\* lite-renderer parseHTML(html, url)
parseHTML(d) ==
    LET result == [t |-> "object",
                   headings |-> Items(d.headings),
                   links |-> Items(d.links),
                   forms |-> Items(d.forms),
                   images |-> SliceItems(Items(d.images), ImageCap),
                   textContent |-> SliceText(Text(d.text), LiteTextCap),
                   tables |-> SliceItems(Items(d.tables), TableCap)]
    IN  [t |-> "object", headings |-> result.headings, links |-> result.links,
         forms |-> result.forms, images |-> result.images,
         textContent |-> result.textContent, tables |-> result.tables,
         stats |-> [headingCount |-> Len(result.headings),
                    linkCount |-> Len(result.links),
                    formCount |-> Len(result.forms),
                    imageCount |-> Len(result.images),
                    tableCount |-> Len(result.tables),
                    textLength |-> result.textContent.len]]

\* the function renderWithPlaywright evaluates in the page
pageEvaluate(d) ==
    LET text == Text(d.text)
        headings == Items(d.headings)
        links == SliceItems(Items(d.links), BrowserLinkCap)
        forms == Items(d.forms)
    IN  [t |-> "object", headings |-> headings, links |-> links, forms |-> forms,
         textContent |-> SliceText(text, BrowserTextCap),
         stats |-> [headingCount |-> Len(headings),
                    linkCount |-> Len(links),
                    formCount |-> Len(forms),
                    textLength |-> text.len]]

\* renderLite parses the document
ParseLite ==
    /\ record = NullV
    /\ record' = parseHTML(doc)
    /\ UNCHANGED <<doc, chunkList, queryArg, ranked, cacheVars, renderVars,
                   browserVars, detectVars>>

\* page.evaluate returns the record of the document loaded in the browser
ParseBrowser ==
    /\ record = NullV
    /\ record' = pageEvaluate(doc)
    /\ UNCHANGED <<doc, chunkList, queryArg, ranked, cacheVars, renderVars,
                   browserVars, detectVars>>

InitParse ==
    /\ CoreIdle
    /\ BrowserIdle
    /\ DetectIdle
    /\ doc \in Docs
    /\ record = NullV
    /\ chunkList = NullV
    /\ queryArg = NoQueryGiven
    /\ ranked = NullV

NextParse ==
    \/ ParseLite
    \/ ParseBrowser

SpecParse == InitParse /\ [][NextParse]_vars

\* the counts of stats and the fields they count
StatsFields ==
    {<<"headingCount", "headings">>, <<"linkCount", "links">>, <<"formCount", "forms">>,
     <<"imageCount", "images">>, <<"tableCount", "tables">>}

\* C18 (as stated): in every PageRecord, of the lite path or of the browser
\* path, each count of stats equals the length of the corresponding field and
\* textLength equals the length of textContent.
C18_StatsMatch ==
    record.t = "object" =>
        /\ \A cf \in StatsFields :
              cf[1] \in DOMAIN record.stats =>
                 /\ cf[2] \in DOMAIN record
                 /\ record.stats[cf[1]] = Len(record[cf[2]])
        /\ record.stats.textLength = record.textContent.len

\* ======================================================= semantic chunker
\* A text is given by its length and by what the regular expressions of
\* scoreBlock and chunkPage find in it.
\*   len        text.length
\*   digits     /\d+/ matches
\*   code       the code pattern matches
\*   nav        the text begins with home, menu, search, login, ...
\*   legal      copyright, all rights reserved or powered by occurs
\*   signal     how to, step, guide, tutorial, example, ... occurs
\*   words      para.split(/\s+/).length
\*   urls       the number of matches of /https?:\/\//g
\*   heading    the index of the first heading of the page the text is equal
\*              to or begins with, 0 if there is none
\*   sentences  the lengths of the pieces splitSentences returns
Para(len, words) ==
    [len |-> len, digits |-> FALSE, code |-> FALSE, nav |-> FALSE, legal |-> FALSE,
     signal |-> FALSE, words |-> words, urls |-> 0, heading |-> 0, sentences |-> <<len>>]

\* scoreBlock(text, context)
scoreBlock(text, linkDensityAbove70, underHeading) ==
    (IF text.len >= 50 /\ text.len <= 500 THEN 2
     ELSE IF text.len > 500 /\ text.len <= 2000 THEN 1
     ELSE IF text.len < 20 THEN 0 - 2 ELSE 0)
    + (IF text.digits THEN 1 ELSE 0)
    + (IF text.code THEN 2 ELSE 0)
    - (IF text.nav THEN 3 ELSE 0)
    - (IF text.legal THEN 2 ELSE 0)
    - (IF linkDensityAbove70 THEN 2 ELSE 0)
    + (IF underHeading THEN 1 ELSE 0)
    + (IF text.signal THEN 2 ELSE 0)

\* options of chunkPage; 0 and Undefined stand for an omitted option
DefaultMaxChunkSize == 800
DefaultMinScore == 0 - 1
NoMinScore == 0 - 100     \* opts.minScore omitted
ChunkOpts(maxChunkSize, minScore, includeNav) ==
    [maxChunkSize |-> maxChunkSize, minScore |-> minScore, includeNav |-> includeNav]

Chunk(id, type, section, len, score, part) ==
    [id |-> id, type |-> type, section |-> section, len |-> len, score |-> score,
     part |-> part]

RECURSIVE SplitLarge(_, _, _, _, _, _, _, _)
\* the loop over the sentences of a paragraph longer than maxSize, from
\* sentence i on: out are the chunks pushed so far, current the length of the
\* text collected, sentIdx the part number
SplitLarge(sentences, i, out, current, sentIdx, score, section, o) ==
    IF i > Len(sentences)
    THEN IF current > 0 /\ score >= o.minScore
         THEN Append(out, Chunk(Len(out), "paragraph", section, current, score, sentIdx))
         ELSE out
    ELSE IF current + 1 + sentences[i] > o.maxSize /\ current > 0
         THEN SplitLarge(sentences, i + 1,
                         IF score >= o.minScore
                         THEN Append(out, Chunk(Len(out), "paragraph", section, current, score, sentIdx))
                         ELSE out,
                         sentences[i], sentIdx + 1, score, section, o)
         ELSE SplitLarge(sentences, i + 1, out,
                         IF current > 0 THEN current + 1 + sentences[i] ELSE sentences[i],
                         sentIdx, score, section, o)

RECURSIVE ChunkParagraphs(_, _, _, _, _)
\* for (const para of paragraphs), from paragraph i on
ChunkParagraphs(paragraphs, i, out, currentSection, o) ==
    IF i > Len(paragraphs) THEN out
    ELSE LET para == paragraphs[i]
             score == scoreBlock(para, 10 * para.urls > 7 * para.words, currentSection # 0)
         IN  IF para.heading # 0
             THEN ChunkParagraphs(paragraphs, i + 1, out, para.heading, o)
             ELSE IF ~o.includeNav /\ 2 * para.urls > para.words
             THEN ChunkParagraphs(paragraphs, i + 1, out, currentSection, o)
             ELSE IF para.len > o.maxSize
             THEN ChunkParagraphs(paragraphs, i + 1,
                     SplitLarge(para.sentences, 1, out, 0, 0, score, currentSection, o),
                     currentSection, o)
             ELSE IF score >= o.minScore
             THEN ChunkParagraphs(paragraphs, i + 1,
                     Append(out, Chunk(Len(out), "paragraph", currentSection, para.len, score, -1)),
                     currentSection, o)
             ELSE ChunkParagraphs(paragraphs, i + 1, out, currentSection, o)

RECURSIVE SortByKey(_)
\* Array.prototype.sort with the comparator (a, b) => b.key - a.key on a
\* list of [key, item] pairs: descending, and stable as ECMAScript requires
SortByKey(ks) ==
    IF ks = <<>> THEN <<>>
    ELSE LET rest == SortByKey(Tail(ks))
             higher == SelectSeq(rest, LAMBDA k : k.key > Head(ks).key)
             other == SelectSeq(rest, LAMBDA k : k.key <= Head(ks).key)
         IN  higher \o <<Head(ks)>> \o other

\* faulty variant: a.score - b.score
SortByScore_ascending(cs) ==
    LET sorted == SortByKey([i \in 1..Len(cs) |-> [key |-> 0 - cs[i].score, item |-> cs[i]]])
    IN  [i \in 1..Len(cs) |-> sorted[i].item]

\* chunks.sort((a, b) => b.score - a.score)
SortByScore(cs) ==
    LET sorted == SortByKey([i \in 1..Len(cs) |-> [key |-> cs[i].score, item |-> cs[i]]])
    IN  [i \in 1..Len(cs) |-> sorted[i].item]

\* page.links.filter(...).filter(...).slice(0, 20)
ImportantLinks(links) == SliceItems(SelectSeq(links, LAMBDA l : l.important), 20)

RECURSIVE ChunkForms(_, _, _)
\* for (const form of page.forms), from form i on
ChunkForms(forms, i, out) ==
    IF i > Len(forms) THEN out
    ELSE ChunkForms(forms, i + 1, Append(out, Chunk(Len(out), "form", 0, forms[i].len, 7, -1)))

\* chunkPage(page, opts); the chunks come with the length of their text
chunkPage(pg, opts) ==
    LET o == [maxSize |-> IF opts.maxChunkSize # 0 THEN opts.maxChunkSize
                          ELSE DefaultMaxChunkSize,
              minScore |-> IF opts.minScore # NoMinScore THEN opts.minScore
                           ELSE DefaultMinScore,
              includeNav |-> opts.includeNav]
        summary == <<Chunk(0, "summary", 0, pg.summaryLen, 10, -1)>>
        toc == IF Len(pg.headings) > 0
               THEN Append(summary, Chunk(Len(summary), "toc", 0, pg.tocLen, 5, -1))
               ELSE summary
        body == ChunkParagraphs(pg.textContent, 1, toc, 0, o)
        forms == ChunkForms(pg.forms, 1, body)
        important == ImportantLinks(pg.links)
        links == IF Len(pg.links) > 0 /\ Len(important) > 0
                 THEN Append(forms,
                        Chunk(Len(forms), "links", 0,
                              15 + Sum([i \in 1..Len(important) |-> important[i].line], 1)
                                 + Len(important) - 1,
                              3, -1))
                 ELSE forms
    IN  SortByScore(links)

\* ----------------------------------------------------- chunkPage on its own
MaxParas == 2         \* the pages have up to MaxParas paragraphs

PlainPara == Para(120, 20)
NavPara == [Para(30, 5) EXCEPT !.nav = TRUE]
LinkList == [Para(60, 4) EXCEPT !.urls = 3]
LongPara == [Para(1700, 280) EXCEPT !.digits = TRUE, !.sentences = <<600, 500, 598>>]
HeadingPara == [Para(12, 2) EXCEPT !.heading = 1]
GuidePara == [Para(200, 30) EXCEPT !.digits = TRUE, !.code = TRUE, !.signal = TRUE]
HomePara == [Para(60, 10) EXCEPT !.nav = TRUE]
Paragraphs == {PlainPara, NavPara, LinkList, LongPara, HeadingPara, GuidePara, HomePara}

\* the paragraph lists of a page with h headings
ParagraphLists(h) ==
    {ps \in UNION {[1..n -> Paragraphs] : n \in 0..MaxParas} :
        h = 0 => \A i \in 1..Len(ps) : ps[i].heading = 0}

\* the pages: with or without a heading, a form, links
ChunkedPages ==
    UNION {{[t |-> "object", summaryLen |-> 40, tocLen |-> 30,
             headings |-> Items(h), textContent |-> ps,
             forms |-> [i \in 1..f |-> [len |-> 60]],
             links |-> [i \in 1..l |-> [important |-> i > 1, line |-> 30]]] :
               f \in {0, 1}, l \in {0, 2}, ps \in ParagraphLists(h)} : h \in {0, 1}}

ChunkOptions ==
    {ChunkOpts(m, s, n) : m \in {0, 550}, s \in {NoMinScore, 0 - 5}, n \in BOOLEAN}

\* chunkPage(page, opts) is called
ChunkPage(opts) ==
    /\ chunkList = NullV
    /\ chunkList' = [t |-> "array", items |-> chunkPage(record, opts), opts |-> opts]
    /\ UNCHANGED <<doc, record, queryArg, ranked, cacheVars, renderVars,
                   browserVars, detectVars>>

InitChunks ==
    /\ CoreIdle
    /\ BrowserIdle
    /\ DetectIdle
    /\ doc = NullV
    /\ record \in ChunkedPages
    /\ chunkList = NullV
    /\ queryArg = NoQueryGiven
    /\ ranked = NullV

NextChunks ==
    \/ \E opts \in ChunkOptions : ChunkPage(opts)

SpecChunks == InitChunks /\ [][NextChunks]_vars

\* C15: chunkPage returns a non-empty list in non-increasing order of score,
\* so the first chunk has the highest score of all.
C15_SortedByScore ==
    chunkList.t = "array" =>
        LET cs == chunkList.items
        IN  /\ Len(cs) >= 1
            /\ \A i \in 1..(Len(cs) - 1) : cs[i].score >= cs[i + 1].score
            /\ \A i \in 1..Len(cs) : cs[1].score >= cs[i].score

\* a list in which the sort moved a form chunk in front of an earlier chunk
C15_Witness ==
    /\ chunkList.t = "array"
    /\ Len(chunkList.items) >= 4
    /\ \E i \in 1..Len(chunkList.items), j \in 1..Len(chunkList.items) :
          /\ i < j
          /\ chunkList.items[i].type = "form"
          /\ chunkList.items[i].id > chunkList.items[j].id


\* ------------------------------------------------------------- findRelevant
\* Texts and queries are sequences of characters.
ToLowerCase(s) == [i \in 1..Len(s) |-> IF s[i] = "A" THEN "a" ELSE s[i]]

RECURSIVE Split(_, _, _, _)
\* s.split(/\s+/) from character i on: cur is the piece being read, out the
\* pieces closed so far
Split(s, i, cur, out) ==
    IF i > Len(s) THEN Append(out, cur)
    ELSE IF s[i] = " "
         THEN IF i > 1 /\ s[i - 1] = " "
              THEN Split(s, i + 1, cur, out)
              ELSE Split(s, i + 1, <<>>, Append(out, cur))
         ELSE Split(s, i + 1, Append(cur, s[i]), out)

\* query.toLowerCase().split(/\s+/).filter(w => w.length > 2)
QueryWords(query) ==
    SelectSeq(Split(ToLowerCase(query), 1, <<>>, <<>>), LAMBDA w : Len(w) > 2)

\* new RegExp(word) matches text at position p: a dot of the word stands for
\* any character
RegExpMatchesAt(text, p, word) ==
    /\ p + Len(word) - 1 <= Len(text)
    /\ \A k \in 1..Len(word) : word[k] = "." \/ word[k] = text[p + k - 1]

RECURSIVE MatchCount(_, _, _)
\* (text.match(new RegExp(word, 'g')) || []).length, scanning from p
MatchCount(text, word, p) ==
    IF p > Len(text) THEN 0
    ELSE IF RegExpMatchesAt(text, p, word)
         THEN 1 + MatchCount(text, word, p + Len(word))
         ELSE MatchCount(text, word, p + 1)

DefaultLimit == 5

\* findRelevant(chunks, query, limit)
findRelevant(chunks, query, limit) ==
    LET queryWords == QueryWords(query)
        relevance(chunk) ==
            chunk.score
            + Sum([k \in 1..Len(queryWords) |->
                      2 * MatchCount(ToLowerCase(chunk.text), queryWords[k], 1)], 1)
        scored == [i \in 1..Len(chunks) |->
                      [id |-> chunks[i].id, score |-> chunks[i].score,
                       text |-> chunks[i].text, relevance |-> relevance(chunks[i])]]
        sorted == SortByKey([i \in 1..Len(scored) |->
                                [key |-> scored[i].relevance, item |-> scored[i]]])
    IN  SliceItems([i \in 1..Len(sorted) |-> sorted[i].item],
                   IF limit = Undefined THEN DefaultLimit ELSE limit)

\* ---------------------------------------------------- findRelevant on its own
MaxChunks == 2        \* the chunk lists have up to MaxChunks chunks

ChunkTexts ==
    {<<>>, <<"a", "a", "a">>, <<"a", ".", "a">>, <<"A", "a", "a">>,
     <<"a", "a", "a", " ", "a", "b", "a">>, <<"a", ".", "a", "a", "a", "a">>}
ChunkScores == {1, 2}
ChunkLists ==
    UNION {{[i \in 1..n |-> [id |-> i - 1, score |-> f[i].score, text |-> f[i].text]] :
              f \in [1..n -> [score : ChunkScores, text : ChunkTexts]]} : n \in 0..MaxChunks}

QueryTokens == {<<"a", "a", "a">>, <<"A", ".", "a">>, <<"a", "a">>}
QueryTexts ==
    {<<>>} \cup QueryTokens
           \cup {v \o <<" ">> \o w : v \in QueryTokens, w \in QueryTokens}
Limits == {Undefined, 1, 2}

\* findRelevant(chunks, query, limit) is called
FindRelevant ==
    /\ ranked = NullV
    /\ ranked' = [t |-> "array",
                  items |-> findRelevant(chunkList.items, queryArg.text, queryArg.limit)]
    /\ UNCHANGED <<doc, record, chunkList, queryArg, cacheVars, renderVars,
                   browserVars, detectVars>>

InitRelevant ==
    /\ CoreIdle
    /\ BrowserIdle
    /\ DetectIdle
    /\ doc = NullV
    /\ record = NullV
    /\ chunkList \in {[t |-> "array", items |-> cs] : cs \in ChunkLists}
    /\ queryArg \in [text : QueryTexts, limit : Limits]
    /\ ranked = NullV

NextRelevant ==
    \/ FindRelevant

SpecRelevant == InitRelevant /\ [][NextRelevant]_vars

RECURSIVE Occurrences(_, _, _)
\* the occurrences of the token word in text, counted from position p
Occurrences(text, word, p) ==
    IF p > Len(text) THEN 0
    ELSE IF p + Len(word) - 1 <= Len(text) /\ SubSeq(text, p, p + Len(word) - 1) = word
         THEN 1 + Occurrences(text, word, p + Len(word))
         ELSE Occurrences(text, word, p + 1)

\* score + 2 x the occurrences of the query tokens longer than 2 in the text
TokenRelevance(chunk, query) ==
    LET tokens == QueryWords(query)
    IN  chunk.score
        + Sum([k \in 1..Len(tokens) |->
                  2 * Occurrences(ToLowerCase(chunk.text), tokens[k], 1)], 1)

\* C16: findRelevant returns at most limit chunks, in non-increasing order of
\* relevance = score + 2 x occurrences of the query tokens of length > 2 in
\* the chunk text (case-insensitive), and leaves out no chunk more relevant
\* than a returned one; so with equal scores the chunk with more occurrences
\* never ranks below the one with fewer.
C16_RankedByOccurrences ==
    ranked.t = "array" =>
        LET rs == ranked.items
            q == queryArg.text
            limit == IF queryArg.limit = Undefined THEN DefaultLimit ELSE queryArg.limit
        IN  /\ Len(rs) <= limit
            /\ \A i \in 1..Len(rs), j \in 1..Len(rs) :
                  i < j => TokenRelevance(rs[i], q) >= TokenRelevance(rs[j], q)
            /\ \A i \in 1..Len(rs), k \in 1..Len(chunkList.items) :
                  (\A j \in 1..Len(rs) : rs[j].id # chunkList.items[k].id)
                      => TokenRelevance(rs[i], q) >= TokenRelevance(chunkList.items[k], q)


\* C19: the results of different backends for one (url, query) are cached
\* separately: a set of a playwright result that evicts nothing leaves a lite
\* row stored for the same (url, query) in the table.
C19_BackendsApart ==
    [][(lastOp'.op = "set" /\ BackendOf(lastOp'.result) = "playwright"
            /\ lastOp'.evicted = 0)
         => \A r \in db :
               (r.url = lastOp'.url /\ r.query = lastOp'.query /\ r.backend = "lite")
                  => \E k \in db' : k.url = r.url /\ k.query = r.query /\ k.backend = "lite"]_vars


\* ------------------------------------------------ concurrent render() calls
\* render() calls on one url and one query that are all issued before any of
\* them has returned (as by Promise.all), the cache being empty and not yet
\* opened.  Each call runs to its first await in one step; the steps of the
\* calls interleave at the awaits.
ConcurrentCalls == {"c1", "c2"}
ConcurrentURL == "u1"
ConcurrentQuery == NoQuery

\* the calls are named in the order in which they are issued
IssuedBefore(p) == IF p = "c2" THEN {"c1"} ELSE {}

AllReturned == \A p \in ConcurrentCalls : calls[p].pc = "done"

\* render(url, options) is called while no call has returned
IssueRender(p, f, n, t) ==
    /\ calls[p].pc = "idle"
    /\ \A o \in IssuedBefore(p) : calls[o].pc # "idle"
    /\ \A o \in ConcurrentCalls : calls[o].pc \notin {"done", "threw"}
    /\ RenderStart(p, ConcurrentURL, ConcurrentQuery, f, n, t)

\* time passes while a call is under way
TimePasses ==
    /\ ~AllReturned
    /\ Tick

InitConcurrent ==
    /\ db = {}
    /\ clock = 0
    /\ lastOp = NoOp
    /\ cacheOpen = FALSE
    /\ calls = [p \in ConcurrentCalls |-> IdleCall]
    /\ LibIdle

NextConcurrent ==
    \/ TimePasses
    \/ \E p \in ConcurrentCalls, f \in ForceArgs, n \in BOOLEAN, t \in RenderTtls :
          IssueRender(p, f, n, t)
    \/ \E p \in ConcurrentCalls : FetchRawFails(p)
    \/ \E p \in ConcurrentCalls, resp \in Responses : FetchRawReturns(p, resp)
    \/ \E p \in ConcurrentCalls : BrowserReturns(p)
    \/ \E p \in ConcurrentCalls : BrowserThrows(p)
    \/ \E p \in ConcurrentCalls, resp \in Responses : LiteFetchReturns(p, resp)
    \/ \E p \in ConcurrentCalls : LiteFetchFails(p)

SpecConcurrent == InitConcurrent /\ [][NextConcurrent]_vars

\* the calls that stored their result
Writers == {p \in ConcurrentCalls : "cache.set" \in calls[p].effects}
\* the rows of the key the calls share
SharedRows ==
    UNION {Matching(db, calls[p].url, CacheKey(calls[p].query)) : p \in ConcurrentCalls}

\* the calls share one cache instance (one call opened it), each fetched for
\* itself, and none returns a result marked cached
SharedCacheFreshResults ==
    AllReturned =>
        /\ Cardinality({p \in ConcurrentCalls : calls[p].opened}) = 1
        /\ \A p \in ConcurrentCalls :
              /\ "fetchRaw" \in calls[p].effects
              /\ "cached" \notin DOMAIN calls[p].ret.props

\* a call that stores its result leaves one row under the key, carrying that
\* result with hit_count 0; no other step changes the table
LastWriterWins ==
    \A p \in ConcurrentCalls :
        IF calls[p].pc \in InFlight /\ calls'[p].pc = "done"
              /\ "cache.set" \in calls'[p].effects
        THEN \E r \in db' :
                /\ db' = {r}
                /\ r.url = calls'[p].url /\ r.query = CacheKey(calls'[p].query)
                /\ r.result_json = JSONstringify(stripUnserializable(calls'[p].ret, 0))
                /\ r.hit_count = 0
        ELSE calls'[p] # calls[p] => db' = db

C21_Non2xxFails ==
    \A p \in Calls :
        LET c == calls[p]
        IN  (c.pc = "done" /\ "non2xx" \in c.effects) =>
              /\ BackendOf(c.ret) = "error"
              /\ c.effects \cap {"renderLite", "renderWithPlaywright", "chunkPage",
                                 "cache.set"} = {}
              /\ c.touched \cap {"created", "modified"} = {}


\* C22: a set that leaves count > maxEntries rows deletes exactly
\* count - maxEntries of them (and none otherwise), deletes no unexpired row
\* while an expired one is retained, and within one expiry class deletes no
\* row whose last_hit is greater than that of a retained row.
C22_EvictionOrder ==
    [][lastOp'.op = "set" =>
         LET count == Cardinality(db') + lastOp'.evicted
             max == maxEntries(lastOp'.cache)
         IN  /\ lastOp'.evicted = (IF count > max THEN count - max ELSE 0)
             /\ \A d \in lastOp'.gone, k \in db' :
                   /\ ~(d.class = 1 /\ ExpiryClass(k, clock') = 0)
                   /\ d.class = ExpiryClass(k, clock') => d.last_hit <= k.last_hit]_vars

\* an expired row was evicted while an unexpired row that was hit less
\* recently stays
C22_Witness ==
    /\ lastOp.op = "set"
    /\ \E d \in lastOp.gone, k \in db :
          d.class = 0 /\ ExpiryClass(k, clock) = 1 /\ k.last_hit < d.last_hit


\* ------------------------------------------------- the cache, any result
\* set() takes the result as it comes: stripUnserializable and the backend
\* lookup let null through, and JSON.stringify(null) is the text "null".
StoredResults == {UnitResult("lite", "page"), NullV}

NextHits ==
    \/ Tick
    \/ \E k \in Keys : Get(k[1], k[2])
    \/ \E k \in Keys, r \in StoredResults, t \in TTLs :
          Set("cache", k[1], k[2], r, t)
    \/ \E u \in URLs : Invalidate(u)
    \/ PurgeExpired

SpecHits == InitCache /\ [][NextHits]_vars

\* C23 (as stated): hit_count is the number of gets that returned the row's
\* result since the last set on its key: a set writes hit_count 0, last_hit =
\* created_at = now and expires_at = now + ttl; a get that returns a result
\* adds exactly 1 to the hit_count of its row and sets last_hit = now; a get
\* that returns null raises no hit_count; nothing else changes a hit_count.
C23_HitBookkeeping ==
    [][/\ lastOp'.op = "set" =>
             \A r \in Matching(db', lastOp'.url, lastOp'.query) :
                /\ r.hit_count = 0
                /\ r.last_hit = clock /\ r.created_at = clock
                /\ r.expires_at = clock + lastOp'.ttl
       /\ \A r \in db' :
             LET old == Matching(db, r.url, r.query)
                 returned == /\ lastOp'.op = "get" /\ lastOp'.ret # NullV
                             /\ lastOp'.url = r.url /\ lastOp'.query = r.query
             IN  (old # {} /\ ~(lastOp'.op = "set" /\ lastOp'.url = r.url
                                   /\ lastOp'.query = r.query)) =>
                    \E o \in old :
                       /\ r.hit_count = o.hit_count + (IF returned THEN 1 ELSE 0)
                       /\ returned => r.last_hit = clock
                       /\ lastOp'.op = "get" /\ lastOp'.ret = NullV
                             => r.last_hit = o.last_hit]_vars


\* C24 (as stated): a call that is not served from the cache issues exactly
\* one raw fetch: the lite path, direct or as fallback, parses the HTML that
\* the call fetched and requests nothing itself, whatever the fetched body.
C24_SingleFetch ==
    \A p \in Calls :
        LET c == calls[p]
        IN  (c.pc # "idle" /\ "fetchRaw" \in c.effects) =>
              /\ "renderLite.fetch" \notin c.effects
              /\ c.pc \notin {"liteFetching", "fallbackFetching"}
              /\ (c.pc = "done" /\ BackendOf(c.ret) \in {"lite", "lite-fallback"}) =>
                    c.ret.props["data"] = renderLitePrefetched(c.url, c.rawHtml)


\* C25 (as stated): every chunk that chunkPage cuts out of a paragraph longer
\* than maxChunkSize (meta.partial) has a text of at most maxChunkSize
\* characters.
C25_ChunkSizeBound ==
    (chunkList.t = "array" /\ "opts" \in DOMAIN chunkList) =>
        LET maxSize == IF chunkList.opts.maxChunkSize # 0
                       THEN chunkList.opts.maxChunkSize ELSE DefaultMaxChunkSize
        IN  \A i \in 1..Len(chunkList.items) :
               chunkList.items[i].part >= 0 => chunkList.items[i].len <= maxSize


\* ------------------------------------------- buildResult: chunks and summary
DefaultFormatLimit == 10
DefaultFormatMinScore == 0
DefaultChunkLimit == 8

\* formatChunks(chunks, opts): the summary is the list of its blocks, which
\* the string joins with "\n\n---\n\n"; a block is the header line of a chunk
\* (id, type, section, score) and its text
formatChunks(chunks, opts) ==
    LET limit == IF opts.limit # 0 THEN opts.limit ELSE DefaultFormatLimit
        minScore == IF opts.minScore # NoMinScore THEN opts.minScore
                    ELSE DefaultFormatMinScore
        filtered == SliceItems(SelectSeq(chunks, LAMBDA c : c.score >= minScore), limit)
    IN  [i \in 1..Len(filtered) |->
            [header |-> [id |-> filtered[i].id, type |-> filtered[i].type,
                         section |-> filtered[i].section, score |-> filtered[i].score],
             text |-> filtered[i].len]]

\* the try block of buildResult for a call without query:
\* chunkPage(data), allChunks.slice(0, chunkLimit), formatChunks(relevant)
SelectChunks(data, chunkLimit) ==
    LET allChunks == chunkPage(data, ChunkOpts(0, NoMinScore, FALSE))
        relevant == SliceItems(allChunks,
                       IF chunkLimit = Undefined THEN DefaultChunkLimit ELSE chunkLimit)
    IN  [chunks |-> relevant,
         summary |-> formatChunks(relevant, [limit |-> 0, minScore |-> NoMinScore])]

ChunkLimits == {Undefined, 0, 2, 12}

\* buildResult(url, backend, detection, data, undefined, chunkLimit, t0)
BuildResult(chunkLimit) ==
    /\ ranked = NullV
    /\ ranked' = [t |-> "result", chunkLimit |-> chunkLimit,
                  chunks |-> SelectChunks(record, chunkLimit).chunks,
                  summary |-> SelectChunks(record, chunkLimit).summary]
    /\ UNCHANGED <<doc, record, chunkList, queryArg, cacheVars, renderVars,
                   browserVars, detectVars>>

NextSummary ==
    \/ \E chunkLimit \in ChunkLimits : BuildResult(chunkLimit)

SpecSummary == InitChunks /\ [][NextSummary]_vars

\* C26 (as stated): result.chunks has at most chunkLimit elements and
\* result.summary has exactly one block for each of them, in the same order.
C26_SummaryCoversChunks ==
    ranked.t = "result" =>
        LET limit == IF ranked.chunkLimit = Undefined THEN DefaultChunkLimit
                     ELSE ranked.chunkLimit
        IN  /\ Len(ranked.chunks) <= limit
            /\ Len(ranked.summary) = Len(ranked.chunks)
            /\ \A i \in 1..Len(ranked.chunks) :
                  /\ i <= Len(ranked.summary)
                  /\ ranked.summary[i].header.id = ranked.chunks[i].id
                  /\ ranked.summary[i].text = ranked.chunks[i].len


\* the rows of the scoring table after the framework signals, as reasons
RatioReasons ==
    << [reason |-> "Very low text ratio", weight |-> 4],
       [reason |-> "Low text ratio", weight |-> 2],
       [reason |-> "Script-heavy", weight |-> 2],
       [reason |-> "Loading skeleton patterns detected", weight |-> 2],
       [reason |-> "Large HTML with almost no semantic content", weight |-> 3],
       [reason |-> "Meta generator = React/Next.js", weight |-> 2] >>
ScoringTable == spaSignals \o RatioReasons
\* the row of a reason
TableRow(reason) == CHOOSE i \in 1..Len(ScoringTable) : ScoringTable[i].reason = reason

\* C27 (as stated): reasons has one entry for each signal of the scoring
\* table that fired, in scan order, and none for a signal that did not fire;
\* so score is the sum of the weights of the listed reasons.
C27_ReasonsMatchScore ==
    report # NoDetection =>
        /\ Len(report.reasons) = Cardinality(FiringSignals(htmlArg))
        /\ \A i \in 1..Len(report.reasons) :
              /\ \E r \in 1..Len(ScoringTable) : ScoringTable[r].reason = report.reasons[i]
              /\ i > 1 => TableRow(report.reasons[i - 1]) < TableRow(report.reasons[i])
        /\ report.score =
              Sum([i \in 1..Len(report.reasons) |->
                      ScoringTable[TableRow(report.reasons[i])].weight], 1)


\* ------------------------------------------------------------ decodeEntities
\* Strings are sequences of characters.
RECURSIVE ReplaceAll(_, _, _, _)
\* str.replace(/pattern/g, replacement) for a literal pattern, from i on
ReplaceAll(str, pattern, replacement, i) ==
    IF i > Len(str) THEN <<>>
    ELSE IF i + Len(pattern) - 1 <= Len(str)
            /\ SubSeq(str, i, i + Len(pattern) - 1) = pattern
         THEN replacement \o ReplaceAll(str, pattern, replacement, i + Len(pattern))
         ELSE <<str[i]>> \o ReplaceAll(str, pattern, replacement, i + 1)

Amp == <<"&", "a", "m", "p", ";">>
Lt == <<"&", "l", "t", ";">>
Gt == <<"&", "g", "t", ";">>
Quot == <<"&", "q", "u", "o", "t", ";">>
Apos == <<"&", "#", "3", "9", ";">>
Nbsp == <<"&", "n", "b", "s", "p", ";">>
\* the six entities with their literals, in the order of the replace calls
Entities ==
    << [entity |-> Amp, literal |-> <<"&">>], [entity |-> Lt, literal |-> <<"<">>],
       [entity |-> Gt, literal |-> <<">">>], [entity |-> Quot, literal |-> <<"\"">>],
       [entity |-> Apos, literal |-> <<"'">>], [entity |-> Nbsp, literal |-> <<" ">>] >>

RECURSIVE ReplaceChain(_, _)
\* the replace calls from the k-th on
ReplaceChain(str, k) ==
    IF k > Len(Entities) THEN str
    ELSE ReplaceChain(ReplaceAll(str, Entities[k].entity, Entities[k].literal, 1), k + 1)

\* decodeEntities(str)
decodeEntities(str) == ReplaceChain(str, 1)

\* ---------------------------------------------------- decodeEntities on its own
MaxPieces == 2        \* the input strings are made of up to MaxPieces pieces

Pieces ==
    {Amp, Lt, Gt, Quot, Apos, Nbsp, <<"l", "t", ";">>, <<"a", "m", "p", ";">>,
     <<"a">>, <<"&">>}
RECURSIVE Strings(_)
Strings(n) ==
    IF n = 0 THEN {<<>>}
    ELSE Strings(n - 1) \cup {s \o p : s \in Strings(n - 1), p \in Pieces}

\* decodeEntities(str) is called
DecodeEntities ==
    /\ record = NullV
    /\ record' = [t |-> "string", chars |-> decodeEntities(doc.chars)]
    /\ UNCHANGED <<doc, chunkList, queryArg, ranked, cacheVars, renderVars,
                   browserVars, detectVars>>

InitDecode ==
    /\ CoreIdle
    /\ BrowserIdle
    /\ DetectIdle
    /\ doc \in {[t |-> "string", chars |-> s] : s \in Strings(MaxPieces)}
    /\ record = NullV
    /\ chunkList = NullV
    /\ queryArg = NoQueryGiven
    /\ ranked = NullV

NextDecode ==
    \/ DecodeEntities

SpecDecode == InitDecode /\ [][NextDecode]_vars

RECURSIVE SinglePass(_, _)
\* one pass over str from i on: an entity that begins at i gives its literal
\* and the pass goes on behind it
SinglePass(str, i) ==
    IF i > Len(str) THEN <<>>
    ELSE LET here == {k \in 1..Len(Entities) :
                         /\ i + Len(Entities[k].entity) - 1 <= Len(str)
                         /\ SubSeq(str, i, i + Len(Entities[k].entity) - 1)
                               = Entities[k].entity}
         IN  IF here = {} THEN <<str[i]>> \o SinglePass(str, i + 1)
             ELSE LET k == CHOOSE k \in here : TRUE
                  IN  Entities[k].literal \o SinglePass(str, i + Len(Entities[k].entity))

\* C28 (as stated): decodeEntities replaces each of the six entities of the
\* input by its literal once; text that a replacement produced is not decoded
\* again.
C28_SinglePassDecoding ==
    record.t = "string" => record.chars = SinglePass(doc.chars, 1)


\* C29 (as stated): a call with force set looks nothing up and returns no
\* cached result; unless noCache is set, it stores its non-error result
\* under (url, query ?? ""), replacing the row of the key; and an unforced
\* call that then finds the row unexpired returns it as a cache hit, with
\* the backend that was forced.
C29_ForcedRenders ==
    /\ [](\A p \in Calls :
            (calls[p].pc # "idle" /\ calls[p].force # NoForce) =>
                /\ "cache.get" \notin calls[p].effects
                /\ calls[p].pc = "done" => "cached" \notin DOMAIN calls[p].ret.props)
    /\ [][\A p \in Calls :
            /\ (/\ calls[p].pc \in InFlight /\ calls'[p].pc = "done"
                /\ calls'[p].force # NoForce /\ ~calls'[p].noCache
                /\ BackendOf(calls'[p].ret) # "error")
               => \E r \in db' :
                     /\ Matching(db', calls'[p].url, CacheKey(calls'[p].query)) = {r}
                     /\ r.result_json =
                           JSONstringify(stripUnserializable(calls'[p].ret, 0))
            /\ (/\ calls[p].pc \in {"idle", "done"} /\ calls'[p].pc # calls[p].pc
                /\ calls'[p].force = NoForce /\ ~calls'[p].noCache
                /\ \E r \in Matching(db, calls'[p].url, CacheKey(calls'[p].query)) :
                      r.expires_at >= clock)
               => /\ calls'[p].pc = "done"
                  /\ calls'[p].ret.props["cached"] = Bool(TRUE)
                  /\ \E r \in Matching(db, calls'[p].url, CacheKey(calls'[p].query)) :
                        BackendOf(calls'[p].ret) = r.backend]_vars


\* ========================================================= AgentWebRenderer
\* One AgentWebRenderer object and its render() calls.  pw holds
\*   browser    this.browser: 0 for null, else the number of a launched browser
\*   launched   the number of browsers launched so far
\*   sinceClose the number of browsers launched since the last close()
\*   open       the launched browsers that have not been closed
\*   contexts   the open browser contexts, each with the call that opened it
\*   lastClose  the last step was the return of close()
\*   calls      the position of each render() call, with its context and
\*              what its try block ended with
MaxLaunches == 3      \* chromium.launch is followed up to this number of browsers
RendererCalls == {"r1", "r2"}

RendererIdleCall == [pc |-> "idle", screenshot |-> FALSE, outcome |-> "none"]

InitRenderer ==
    /\ CoreIdle
    /\ DetectIdle
    /\ PageIdle
    /\ pw = [browser |-> 0, launched |-> 0, sinceClose |-> 0, open |-> {},
             contexts |-> {}, lastClose |-> FALSE,
             calls |-> [c \in RendererCalls |-> RendererIdleCall]]

RendererBusy ==
    \E c \in RendererCalls : pw.calls[c].pc \notin {"idle", "returned", "threw"}

\* render(url, options) up to the first await: init() either starts
\* chromium.launch or finds this.browser set
RendererRender(c, screenshot) ==
    /\ pw.calls[c].pc \in {"idle", "returned", "threw"}
    /\ pw.browser = 0 => pw.launched + Cardinality({d \in RendererCalls :
                             pw.calls[d].pc = "launching"}) < MaxLaunches
    /\ pw' = [pw EXCEPT !.lastClose = FALSE,
                        !.calls[c] = [pc |-> IF pw.browser = 0 THEN "launching"
                                             ELSE "inited",
                                      screenshot |-> screenshot, outcome |-> "none"]]
    /\ UNCHANGED <<cacheVars, renderVars, detectVars, pageVars>>

\* chromium.launch settles; on success the browser is assigned to this.browser
RendererLaunch(c, ok) ==
    /\ pw.calls[c].pc = "launching"
    /\ pw' = IF ok
             THEN [pw EXCEPT !.browser = pw.launched + 1,
                             !.launched = pw.launched + 1,
                             !.sinceClose = pw.sinceClose + 1,
                             !.open = pw.open \cup {pw.launched + 1},
                             !.calls[c].pc = "inited"]
             ELSE [pw EXCEPT !.calls[c].pc = "threw"]
    /\ UNCHANGED <<cacheVars, renderVars, detectVars, pageVars>>

\* this.browser.newContext settles
RendererNewContext(c, ok) ==
    /\ pw.calls[c].pc = "inited"
    /\ pw' = IF ok /\ pw.browser # 0
             THEN [pw EXCEPT !.contexts = pw.contexts \cup
                                 {[owner |-> c, browser |-> pw.browser]},
                             !.calls[c].pc = "context"]
             ELSE [pw EXCEPT !.calls[c].pc = "threw"]
    /\ UNCHANGED <<cacheVars, renderVars, detectVars, pageVars>>

\* context.newPage settles, ahead of the try block
RendererNewPage(c, ok) ==
    /\ pw.calls[c].pc = "context"
    /\ pw' = [pw EXCEPT !.calls[c].pc = IF ok THEN "goto" ELSE "threw"]
    /\ UNCHANGED <<cacheVars, renderVars, detectVars, pageVars>>

\* page.goto settles
RendererGoto(c, ok) ==
    /\ pw.calls[c].pc = "goto"
    /\ pw' = IF ok THEN [pw EXCEPT !.calls[c].pc = "evaluate"]
             ELSE [pw EXCEPT !.calls[c].pc = "finally", !.calls[c].outcome = "throw"]
    /\ UNCHANGED <<cacheVars, renderVars, detectVars, pageVars>>

\* page.evaluate settles
RendererEvaluate(c, ok) ==
    /\ pw.calls[c].pc = "evaluate"
    /\ pw' = IF ~ok
             THEN [pw EXCEPT !.calls[c].pc = "finally", !.calls[c].outcome = "throw"]
             ELSE IF pw.calls[c].screenshot
             THEN [pw EXCEPT !.calls[c].pc = "screenshot"]
             ELSE [pw EXCEPT !.calls[c].pc = "finally", !.calls[c].outcome = "return"]
    /\ UNCHANGED <<cacheVars, renderVars, detectVars, pageVars>>

\* page.screenshot settles
RendererScreenshot(c, ok) ==
    /\ pw.calls[c].pc = "screenshot"
    /\ pw' = [pw EXCEPT !.calls[c].pc = "finally",
                        !.calls[c].outcome = IF ok THEN "return" ELSE "throw"]
    /\ UNCHANGED <<cacheVars, renderVars, detectVars, pageVars>>

\* finally { await context.close() }
RendererContextClose(c) ==
    /\ pw.calls[c].pc = "finally"
    /\ pw' = [pw EXCEPT !.contexts = {x \in pw.contexts : x.owner # c},
                        !.calls[c].pc = IF pw.calls[c].outcome = "return"
                                        THEN "returned" ELSE "threw"]
    /\ UNCHANGED <<cacheVars, renderVars, detectVars, pageVars>>

\* close(), called when the render() calls have settled
RendererClose ==
    /\ ~RendererBusy
    /\ \E c \in RendererCalls : pw.calls[c].pc # "idle"
    /\ ~pw.lastClose
    /\ pw' = [pw EXCEPT !.open = pw.open \ {pw.browser},
                        !.contexts = {x \in pw.contexts : x.browser # pw.browser},
                        !.browser = 0, !.sinceClose = 0, !.lastClose = TRUE]
    /\ UNCHANGED <<cacheVars, renderVars, detectVars, pageVars>>

NextRenderer ==
    \/ \E c \in RendererCalls, s \in BOOLEAN : RendererRender(c, s)
    \/ \E c \in RendererCalls, ok \in BOOLEAN : RendererLaunch(c, ok)
    \/ \E c \in RendererCalls, ok \in BOOLEAN : RendererNewContext(c, ok)
    \/ \E c \in RendererCalls, ok \in BOOLEAN : RendererNewPage(c, ok)
    \/ \E c \in RendererCalls, ok \in BOOLEAN : RendererGoto(c, ok)
    \/ \E c \in RendererCalls, ok \in BOOLEAN : RendererEvaluate(c, ok)
    \/ \E c \in RendererCalls, ok \in BOOLEAN : RendererScreenshot(c, ok)
    \/ \E c \in RendererCalls : RendererContextClose(c)
    \/ RendererClose

SpecRenderer == InitRenderer /\ [][NextRenderer]_vars

\* C30 (as stated): at most one browser is launched between two close()
\* calls, every context that a render() opened is closed when that call has
\* returned or thrown, and after close() no browser of the renderer is open.
C30_BrowserLifecycle ==
    /\ pw.sinceClose <= 1
    /\ \A c \in RendererCalls :
          pw.calls[c].pc \in {"returned", "threw"} =>
              \A x \in pw.contexts : x.owner # c
    /\ pw.lastClose => pw.open = {}

====
